---- MODULE Spec2Model ----
(***************************************************************************)
(* Image-FT-Mixer: the frequency-domain mixing pipeline.                   *)
(*                                                                         *)
(*   FourierTransform  - padding size, spectrum shift                       *)
(*   FourierMixer      - weights, region mask, the two mixing modes         *)
(*   App               - the auto-mixing controller that feeds the mixer    *)
(*                                                                         *)
(* JavaScript numbers are modelled as exact rationals <<n, d>> in lowest    *)
(* terms with d > 0; NaN is <<0, 0>>.  JavaScript arrays are sequences:     *)
(* the element at JavaScript index k is element k + 1 of the sequence.      *)
(* An array written as `s \o <<>>` is the array s with its elements         *)
(* computed once, when it is filled.                                       *)
(***************************************************************************)
EXTENDS Integers, Sequences, FiniteSets, TLC

VARIABLES
  loadedImages,    \* App: viewport id -> the ImageProcessor registered for it
  targetSize,      \* App: the size every loaded image is resized to
  sourceImage,     \* viewport id -> the image it loaded, un-adjusted, at its current size
  weights,         \* App: the four weight sliders
  mixMode,         \* App: selected mixing mode
  regionConfig,    \* App: region filter configuration
  selectedOutput,  \* App: selected output port
  outputData1,     \* App: result shown on port 1
  outputData2,     \* App: result shown on port 2
  timers,          \* pending setTimeout callbacks, in the order they fire
  gestures,        \* how many user gestures the App has handled
  viewportProcessor, \* ImageViewport: viewport id -> its ImageProcessor, loads interleaved
  component,       \* ComponentMixer: its state, refs and the onMix calls it made
  mixer,           \* the FourierMixer instance last configured
  call,            \* the operation applied last and its arguments
  ret              \* the value that operation returned

vars == <<loadedImages, targetSize, sourceImage, weights, mixMode, regionConfig,
          selectedOutput, outputData1, outputData2, timers, gestures, viewportProcessor,
          component, mixer, call, ret>>

appVars == <<loadedImages, targetSize, sourceImage, weights, mixMode, regionConfig,
             selectedOutput, outputData1, outputData2, timers, gestures,
             viewportProcessor, component>>

(***************************************************************************)
(* Bounds of the model.                                                    *)
(***************************************************************************)
\* FFT grids are 2^1 .. 2^MaxLog cells wide and high in the mask model
MaxLog == 3
\* source dimensions 0 .. MaxN are fed to nextPowerOf2
MaxN == 300
\* source dimensions 0 .. MaxCtorDim are fed to the FourierTransform constructor
MaxCtorDim == 12
\* tagged spectra: the first entry is drawn from 1 .. MaxTag + 1
MaxTag == 5
\* every 0/1 spectrum of at most MaxBinaryCells cells is shifted
MaxBinaryCells == 4
\* setProcessors is handed at most MaxSources processors
MaxSources == 2
\* setWeights is handed at most MaxWeights weights
MaxWeights == 2
\* setWeights alone is handed at most MaxWeightLen weights
MaxWeightLen == 4
\* region sizes 0 .. MaxSize percent
MaxSize == 100
\* the App handles at most MaxGestures user gestures
MaxGestures == 3
\* at most MaxTimers setTimeout callbacks are pending
MaxTimers == 2
\* inverse-transform values -1 .. MaxGray
MaxGray == 3
\* rasters of 0 .. MaxSide pixels a side
MaxSide == 3
\* one ImageProcessor is taken through at most MaxProcessorOps operations
MaxProcessorOps == 4
\* at most MaxLoads files are selected in the viewports
MaxLoads == 2

(***************************************************************************)
(* Numbers.                                                                *)
(***************************************************************************)
Abs(n) == IF n < 0 THEN -n ELSE n

RECURSIVE GCD(_, _)
GCD(a, b) == IF b = 0 THEN a ELSE GCD(b, a % b)

NaN == <<0, 0>>

IsNaN(a) == a[2] = 0

Norm(n, d) ==
  IF d = 0 THEN NaN
  ELSE LET g == GCD(Abs(n), Abs(d))
           s == IF d < 0 THEN -1 ELSE 1
       IN  <<(s * n) \div g, (s * d) \div g>>

R(n) == <<n, 1>>

Zero == R(0)

One == R(1)

RAdd(a, b) == IF IsNaN(a) \/ IsNaN(b) THEN NaN
              ELSE Norm(a[1] * b[2] + b[1] * a[2], a[2] * b[2])

RNeg(a) == IF IsNaN(a) THEN NaN ELSE <<-a[1], a[2]>>

RSub(a, b) == RAdd(a, RNeg(b))

RMul(a, b) == IF IsNaN(a) \/ IsNaN(b) THEN NaN
              ELSE Norm(a[1] * b[1], a[2] * b[2])

\* a / b; a zero divisor yields a non-finite value, modelled as NaN
RDiv(a, b) == IF IsNaN(a) \/ IsNaN(b) \/ b[1] = 0 THEN NaN
              ELSE Norm(a[1] * b[2], a[2] * b[1])

\* a < b (false when either is NaN, as in JavaScript)
RLess(a, b) == ~IsNaN(a) /\ ~IsNaN(b) /\ a[1] * b[2] < b[1] * a[2]

RECURSIVE RSum(_)
RSum(s) == IF s = <<>> THEN Zero ELSE RAdd(RSum(SubSeq(s, 1, Len(s) - 1)), s[Len(s)])

RECURSIVE Pow2(_)
Pow2(k) == IF k = 0 THEN 1 ELSE 2 * Pow2(k - 1)

IsPowerOf2(n) == \E k \in 0..20 : Pow2(k) = n

(***************************************************************************)
(* FourierTransform.nextPowerOf2 and the constructor.                      *)
(***************************************************************************)
\* Math.ceil(Math.log2(n)) for n >= 1: the least k with 2^k >= n
RECURSIVE CeilLog2From(_, _)
CeilLog2From(n, k) == IF Pow2(k) >= n THEN k ELSE CeilLog2From(n, k + 1)

CeilLog2(n) == CeilLog2From(n, 0)

\* the next power of two strictly above n
nextPowerOf2Above(n) == IF n <= 1 THEN 2 ELSE Pow2(CeilLog2(n + 1))

nextPowerOf2(n) == IF n <= 1 THEN 2 ELSE Pow2(CeilLog2(n))

NullData == <<>>

\* new FourierTransform(width, height)
FourierTransform(width, height) ==
  [ isNull      |-> FALSE,
    width       |-> width,
    height      |-> height,
    fftWidth    |-> nextPowerOf2(width),
    fftHeight   |-> nextPowerOf2(height),
    fftSize     |-> nextPowerOf2(width) * nextPowerOf2(height),
    complexData |-> NullData ]

(***************************************************************************)
(* FourierTransform.fftShiftComplex.                                       *)
(***************************************************************************)
ZeroArray(n) == [k \in 1..n |-> Zero]

\* a sequence of complex numbers <<re, im>> as an interleaved array
Interleave(cells) ==
  [ k \in 1..(2 * Len(cells)) |-> cells[(k + 1) \div 2][IF k % 2 = 1 THEN 1 ELSE 2] ]

\* the inner loop over x, from cell (x, y) of row y on
RECURSIVE ShiftRow(_, _, _, _, _, _)
ShiftRow(shifted, complexData, width, height, y, x) ==
  IF x >= width THEN shifted
  ELSE LET halfW   == width \div 2
           halfH   == height \div 2
           newX    == (x + halfW) % width
           newY    == (y + halfH) % height
           oldIdx  == (y * width + x) * 2
           newIdx  == (newY * width + newX) * 2
           written == [shifted EXCEPT ![newIdx + 1] = complexData[oldIdx + 1],
                                      ![newIdx + 2] = complexData[oldIdx + 2]]
       IN  IF newIdx + 2 <= Len(written)
           THEN ShiftRow(written, complexData, width, height, y, x + 1)
           ELSE ShiftRow(shifted, complexData, width, height, y, x + 1)

\* the loop over the rows, from row y on
RECURSIVE ShiftLoop(_, _, _, _, _)
ShiftLoop(shifted, complexData, width, height, y) ==
  IF y >= height THEN shifted
  ELSE ShiftLoop(ShiftRow(shifted, complexData, width, height, y, 0),
                 complexData, width, height, y + 1)

\* the shift applied along x only
RECURSIVE ShiftColumnsLoop(_, _, _, _, _)
ShiftColumnsLoop(shifted, complexData, width, height, k) ==
  IF k >= width * height THEN shifted
  ELSE LET x      == k % width
           y      == k \div width
           halfW  == width \div 2
           newX   == (x + halfW) % width
           oldIdx == (y * width + x) * 2
           newIdx == (y * width + newX) * 2
       IN  ShiftColumnsLoop([shifted EXCEPT ![newIdx + 1] = complexData[oldIdx + 1],
                                            ![newIdx + 2] = complexData[oldIdx + 2]],
                            complexData, width, height, k + 1)

fftShiftColumnsOnly(complexData, width, height) ==
  ShiftColumnsLoop(ZeroArray(Len(complexData)), complexData, width, height, 0)

fftShiftComplex(complexData, width, height) ==
  ShiftLoop(ZeroArray(Len(complexData)), complexData, width, height, 0)

\* FourierTransform.hasFFT
FThasFFT(fft) == fft.complexData # NullData

(***************************************************************************)
(* ImageProcessor: the part the mixer reads.                               *)
(***************************************************************************)
\* processor.fft === null
NullFFT ==
  [ isNull |-> TRUE, width |-> 0, height |-> 0, fftWidth |-> 0, fftHeight |-> 0,
    fftSize |-> 0, complexData |-> NullData ]

\* a null entry of a processors array
NoProcessor ==
  [ isNull |-> TRUE, id |-> 0, width |-> 0, height |-> 0, grayscaleData |-> NullData,
    originalGrayscale |-> NullData, brightness |-> 0, contrast |-> 0, fft |-> NullFFT ]

\* ImageProcessor.hasFFT
hasFFT(p) == ~p.fft.isNull /\ FThasFFT(p.fft)

(***************************************************************************)
(* FourierMixer: configuration.                                            *)
(***************************************************************************)
MagnitudePhase == "magnitude-phase"

RealImaginary == "real-imaginary"

\* regionConfig === null
NullConfig == [ isNull |-> TRUE, enabled |-> FALSE, type |-> "inner", size |-> 0 ]

RegionConfig(enabled, type, size) ==
  [ isNull |-> FALSE, enabled |-> enabled, type |-> type, size |-> size ]

\* new FourierMixer()
NewFourierMixer ==
  [ processors   |-> <<>>,
    mixMode      |-> MagnitudePhase,
    weights      |-> <<Norm(1, 4), Norm(1, 4), Norm(1, 4), Norm(1, 4)>>,
    regionConfig |-> NullConfig ]

KeepWithFFT(p) == ~p.isNull /\ hasFFT(p)

\* setProcessors that keeps every processor that is not null
setProcessorsKeepLoaded(m, processors) ==
  [m EXCEPT !.processors = SelectSeq(processors, LAMBDA p : ~p.isNull)]

setProcessors(m, processors) ==
  [m EXCEPT !.processors = SelectSeq(processors, KeepWithFFT)]

setMixMode(m, mode) ==
  IF mode # MagnitudePhase /\ mode # RealImaginary
  THEN [m EXCEPT !.mixMode = MagnitudePhase]
  ELSE [m EXCEPT !.mixMode = mode]

\* setWeights that divides by the number of weights instead of their sum
setWeightsByCount(m, ws) ==
  [m EXCEPT !.weights = [j \in 1..Len(ws) |-> RDiv(ws[j], R(Len(ws)))]]

\* ws is a sequence of numbers; the sum === 0 test selects equal weights
setWeights(m, ws) ==
  LET sum == RSum(ws)
  IN  IF sum = Zero
      THEN [m EXCEPT !.weights = [j \in 1..Len(ws) |-> RDiv(One, R(Len(ws)))]]
      ELSE [m EXCEPT !.weights = [j \in 1..Len(ws) |-> RDiv(ws[j], sum)]]

setRegionConfig(m, config) == [m EXCEPT !.regionConfig = config]

canMix(m) == Len(m.processors) > 0

(***************************************************************************)
(* FourierMixer.createRegionMask.  It is only ever called with the FFT     *)
(* dimensions, which are powers of two; for those and an integer size      *)
(* Math.floor(width * (size / 100) / 2) is floor(width * size / 200).      *)
(***************************************************************************)
\* createRegionMask with the rectangle's height taken from the width
createRegionMaskSquare(width, height, config) ==
  LET centerX      == width \div 2
      centerY      == height \div 2
      regionWidth  == (width * config.size) \div 200
      regionHeight == (width * config.size) \div 200
  IN  [ k \in 1..(width * height) |->
          LET idx        == k - 1
              x          == idx % width
              y          == idx \div width
              dx         == Abs(x - centerX)
              dy         == Abs(y - centerY)
              insideRect == dx <= regionWidth /\ dy <= regionHeight
          IN  IF config.type = "inner"
              THEN (IF insideRect THEN 1 ELSE 0)
              ELSE (IF insideRect THEN 0 ELSE 1) ]

\* createRegionMask with a strict comparison against the half extents
createRegionMaskStrict(width, height, config) ==
  LET centerX      == width \div 2
      centerY      == height \div 2
      regionWidth  == (width * config.size) \div 200
      regionHeight == (height * config.size) \div 200
  IN  [ k \in 1..(width * height) |->
          LET idx        == k - 1
              x          == idx % width
              y          == idx \div width
              dx         == Abs(x - centerX)
              dy         == Abs(y - centerY)
              insideRect == dx < regionWidth /\ dy < regionHeight
          IN  IF config.type = "inner"
              THEN (IF insideRect THEN 1 ELSE 0)
              ELSE (IF insideRect THEN 0 ELSE 1) ]

\* createRegionMask whose outer mask keeps the border of the rectangle
createRegionMaskOuterBorder(width, height, config) ==
  LET centerX      == width \div 2
      centerY      == height \div 2
      regionWidth  == (width * config.size) \div 200
      regionHeight == (height * config.size) \div 200
  IN  [ k \in 1..(width * height) |->
          LET idx        == k - 1
              x          == idx % width
              y          == idx \div width
              dx         == Abs(x - centerX)
              dy         == Abs(y - centerY)
          IN  IF config.type = "inner"
              THEN (IF dx <= regionWidth /\ dy <= regionHeight THEN 1 ELSE 0)
              ELSE (IF dx < regionWidth /\ dy < regionHeight THEN 0 ELSE 1) ]

createRegionMask(width, height, config) ==
  LET centerX      == width \div 2
      centerY      == height \div 2
      regionWidth  == (width * config.size) \div 200
      regionHeight == (height * config.size) \div 200
  IN  [ k \in 1..(width * height) |->
          LET idx        == k - 1
              x          == idx % width
              y          == idx \div width
              dx         == Abs(x - centerX)
              dy         == Abs(y - centerY)
              insideRect == dx <= regionWidth /\ dy <= regionHeight
          IN  IF config.type = "inner"
              THEN (IF insideRect THEN 1 ELSE 0)
              ELSE (IF insideRect THEN 0 ELSE 1) ]

\* the region mask built whenever a configuration is present, enabled or not
RegionMaskOfAnyConfig(m, fftWidth, fftHeight) ==
  IF ~m.regionConfig.isNull
  THEN createRegionMask(fftWidth, fftHeight, m.regionConfig)
  ELSE <<>>

\* the local regionMask of both mixing methods; <<>> stands for null
RegionMaskOf(m, fftWidth, fftHeight) ==
  IF ~m.regionConfig.isNull /\ m.regionConfig.enabled
  THEN createRegionMask(fftWidth, fftHeight, m.regionConfig)
  ELSE <<>>

\* regionMask && !regionMask[i]
MaskedOut(regionMask, i) == regionMask # <<>> /\ regionMask[i + 1] = 0

(***************************************************************************)
(* FourierMixer: the two mixing methods.  An array read outside the array  *)
(* (undefined) turns every number computed from it into NaN.               *)
(***************************************************************************)
ReadAt(arr, k) == IF k + 1 \in DOMAIN arr THEN arr[k + 1] ELSE NaN

\* the real/imaginary accumulation with the imaginary part taken from the real
RECURSIVE AccRealOnly(_, _, _, _)
AccRealOnly(m, i, j, acc) ==
  IF j > Len(m.processors) THEN acc
  ELSE LET fft    == m.processors[j].fft
           weight == ReadAt(m.weights, j - 1)
       IN  IF weight = Zero
           THEN AccRealOnly(m, i, j + 1, acc)
           ELSE AccRealOnly(m, i, j + 1,
                  << RAdd(acc[1], RMul(ReadAt(fft.complexData, i * 2), weight)),
                     RAdd(acc[2], RMul(ReadAt(fft.complexData, i * 2), weight)) >>)

\* the accumulators <<mixedReal, mixedImag>> after sources j .. of cell i
RECURSIVE AccRealImaginary(_, _, _, _)
AccRealImaginary(m, i, j, acc) ==
  IF j > Len(m.processors) THEN acc
  ELSE LET fft    == m.processors[j].fft
           weight == ReadAt(m.weights, j - 1)
       IN  IF weight = Zero
           THEN AccRealImaginary(m, i, j + 1, acc)
           ELSE AccRealImaginary(m, i, j + 1,
                  << RAdd(acc[1], RMul(ReadAt(fft.complexData, i * 2), weight)),
                     RAdd(acc[2], RMul(ReadAt(fft.complexData, i * 2 + 1), weight)) >>)

\* <<real, imag>> written to mixedComplex for cell i
CellRealImaginary(m, regionMask, i) ==
  IF MaskedOut(regionMask, i) THEN <<Zero, Zero>>
  ELSE AccRealImaginary(m, i, 1, <<Zero, Zero>>)

mixRealImaginary(m, fftWidth, fftHeight) ==
  LET size       == fftWidth * fftHeight
      regionMask == RegionMaskOf(m, fftWidth, fftHeight)
  IN  Interleave([ c \in 1..size |-> CellRealImaginary(m, regionMask, c - 1) ] \o <<>>)

(***************************************************************************)
(* Magnitude/phase mixing in exact arithmetic.  Math.sqrt is exact on      *)
(* squares of rationals; cos(atan2(b, a)) is a / sqrt(a^2 + b^2) and       *)
(* sin(atan2(b, a)) is b / sqrt(a^2 + b^2), with atan2(0, 0) = 0.  The      *)
(* rounding residue of the floating-point sine and cosine is not modelled.  *)
(* A mix is taken in this mode only where every root it needs is rational  *)
(* (PolarExact).                                                           *)
(***************************************************************************)
RECURSIVE ISqrtFrom(_, _)
ISqrtFrom(n, r) == IF (r + 1) * (r + 1) > n THEN r ELSE ISqrtFrom(n, r + 1)

ISqrt(n) == ISqrtFrom(n, 0)

IsSquare(q) == ~IsNaN(q) /\ q[1] >= 0
               /\ ISqrt(q[1]) * ISqrt(q[1]) = q[1] /\ ISqrt(q[2]) * ISqrt(q[2]) = q[2]

RSqrt(q) == IF IsNaN(q) \/ q[1] < 0 THEN NaN ELSE <<ISqrt(q[1]), ISqrt(q[2])>>

Hypot2(a, b) == RAdd(RMul(a, a), RMul(b, b))

\* Math.cos(Math.atan2(b, a))
CosAtan2(b, a) == IF IsNaN(a) \/ IsNaN(b) THEN NaN
                  ELSE IF a = Zero /\ b = Zero THEN One
                  ELSE RDiv(a, RSqrt(Hypot2(a, b)))

\* Math.sin(Math.atan2(b, a))
SinAtan2(b, a) == IF IsNaN(a) \/ IsNaN(b) THEN NaN
                  ELSE IF a = Zero /\ b = Zero THEN Zero
                  ELSE RDiv(b, RSqrt(Hypot2(a, b)))

\* the accumulators <<mixedMagnitude, sumCosPhase, sumSinPhase, exact>>
RECURSIVE AccMagnitudePhase(_, _, _, _)
AccMagnitudePhase(m, i, j, acc) ==
  IF j > Len(m.processors) THEN acc
  ELSE LET fft    == m.processors[j].fft
           weight == ReadAt(m.weights, j - 1)
           real   == ReadAt(fft.complexData, i * 2)
           imag   == ReadAt(fft.complexData, i * 2 + 1)
           magnitude == RSqrt(Hypot2(real, imag))
       IN  IF weight = Zero
           THEN AccMagnitudePhase(m, i, j + 1, acc)
           ELSE AccMagnitudePhase(m, i, j + 1,
                  << RAdd(acc[1], RMul(magnitude, weight)),
                     RAdd(acc[2], RMul(CosAtan2(imag, real), weight)),
                     RAdd(acc[3], RMul(SinAtan2(imag, real), weight)),
                     acc[4] /\ (IsNaN(Hypot2(real, imag)) \/ IsSquare(Hypot2(real, imag))) >>)

\* the cell with the phases averaged as numbers: opposite phases +t and -t,
\* whose sines cancel, average to phase 0
CellMagnitudePhaseLinear(m, regionMask, i) ==
  IF MaskedOut(regionMask, i) THEN <<Zero, Zero>>
  ELSE LET acc == AccMagnitudePhase(m, i, 1, <<Zero, Zero, Zero, TRUE>>)
       IN  IF acc[3] = Zero THEN <<acc[1], Zero>>
           ELSE << RMul(acc[1], CosAtan2(acc[3], acc[2])),
                   RMul(acc[1], SinAtan2(acc[3], acc[2])) >>

CellMagnitudePhase(m, regionMask, i) ==
  IF MaskedOut(regionMask, i) THEN <<Zero, Zero>>
  ELSE LET acc == AccMagnitudePhase(m, i, 1, <<Zero, Zero, Zero, TRUE>>)
       IN  << RMul(acc[1], CosAtan2(acc[3], acc[2])),
              RMul(acc[1], SinAtan2(acc[3], acc[2])) >>

mixMagnitudePhase(m, fftWidth, fftHeight) ==
  LET size       == fftWidth * fftHeight
      regionMask == RegionMaskOf(m, fftWidth, fftHeight)
  IN  Interleave([ c \in 1..size |-> CellMagnitudePhase(m, regionMask, c - 1) ] \o <<>>)

\* every square root the magnitude/phase mix of m takes is rational
PolarExact(m, fftWidth, fftHeight) ==
  LET regionMask == RegionMaskOf(m, fftWidth, fftHeight)
  IN  \A i \in 0..(fftWidth * fftHeight - 1) :
        MaskedOut(regionMask, i) \/
        LET acc == AccMagnitudePhase(m, i, 1, <<Zero, Zero, Zero, TRUE>>)
        IN  acc[4] /\ (IsNaN(Hypot2(acc[2], acc[3])) \/ IsSquare(Hypot2(acc[2], acc[3])))

(***************************************************************************)
(* The fft.js library.  FFT.transform of the fft.js library is the      *)
(* discrete Fourier transform X[k] = sum_n x[n] * w^(n*k), w = exp(-2*pi*i  *)
(* / size).  For size 2 and 4 the powers of w are 1, -i, -1, i, so the      *)
(* transform is exact on rationals; the model keeps to those sizes.        *)
(***************************************************************************)
\* z * (-i)^p for a complex number z = <<re, im>>
MulNegIPow(z, p) ==
  CASE p % 4 = 0 -> z
    [] p % 4 = 1 -> <<z[2], RNeg(z[1])>>
    [] p % 4 = 2 -> <<RNeg(z[1]), RNeg(z[2])>>
    [] OTHER     -> <<RNeg(z[2]), z[1]>>

CAdd(a, b) == <<RAdd(a[1], b[1]), RAdd(a[2], b[2])>>

RECURSIVE DFTSum(_, _, _, _)
DFTSum(xs, size, k, n) ==
  IF n >= size THEN <<Zero, Zero>>
  ELSE CAdd(MulNegIPow(xs[n + 1], (n * k) * (4 \div size)), DFTSum(xs, size, k, n + 1))

\* new FFT(size).transform(out, data), as a sequence of complex numbers
FFTtransform(xs, size) == [ k \in 1..size |-> DFTSum(xs, size, k - 1, 0) ] \o <<>>

(***************************************************************************)
(* FourierMixer: the inverse pipeline.                                     *)
(***************************************************************************)
\* the inner loop of ifftShift over x, from cell (x, y) of row y on
RECURSIVE IShiftRow(_, _, _, _, _, _)
IShiftRow(shifted, complexData, width, height, y, x) ==
  IF x >= width THEN shifted
  ELSE LET halfW   == width \div 2
           halfH   == height \div 2
           newX    == (x + halfW) % width
           newY    == (y + halfH) % height
           oldIdx  == (y * width + x) * 2
           newIdx  == (newY * width + newX) * 2
           written == [shifted EXCEPT ![newIdx + 1] = complexData[oldIdx + 1],
                                      ![newIdx + 2] = complexData[oldIdx + 2]]
       IN  IF newIdx + 2 <= Len(written)
           THEN IShiftRow(written, complexData, width, height, y, x + 1)
           ELSE IShiftRow(shifted, complexData, width, height, y, x + 1)

\* the loop over the rows, from row y on
RECURSIVE IShiftLoop(_, _, _, _, _)
IShiftLoop(shifted, complexData, width, height, y) ==
  IF y >= height THEN shifted
  ELSE IShiftLoop(IShiftRow(shifted, complexData, width, height, y, 0),
                  complexData, width, height, y + 1)

\* ifftShift that moves the cells along x only
ifftShiftColumnsOnly(complexData, width, height) ==
  ShiftColumnsLoop(ZeroArray(Len(complexData)), complexData, width, height, 0)

ifftShift(complexData, width, height) ==
  IShiftLoop(ZeroArray(Len(complexData)), complexData, width, height, 0)

RECURSIVE IDFTSum(_, _, _, _)
IDFTSum(xs, size, k, n) ==
  IF n >= size THEN <<Zero, Zero>>
  ELSE CAdd(MulNegIPow(xs[n + 1], 3 * (n * k) * (4 \div size)), IDFTSum(xs, size, k, n + 1))

\* the conjugate transform without the division by size
FFTinverseTransformUnscaled(xs, size) ==
  [ k \in 1..size |-> IDFTSum(xs, size, k - 1, 0) ] \o <<>>

\* new FFT(size).inverseTransform(out, data): the conjugate transform divided
\* by size
FFTinverseTransform(xs, size) ==
  [ k \in 1..size |->
      LET z == IDFTSum(xs, size, k - 1, 0)
      IN  <<RDiv(z[1], R(size)), RDiv(z[2], R(size))>> ] \o <<>>

\* the local `result` of performIFFT: inverse shift, then the inverse
\* transform of every column, then of every row
InverseResult(complexData, fftWidth, fftHeight) ==
  LET shiftedData == ifftShift(complexData, fftWidth, fftHeight)
      colOut == [ x \in 1..fftWidth |->
                    FFTinverseTransform(
                      [ y \in 1..fftHeight |->
                          <<shiftedData[(y - 1) * fftWidth * 2 + (x - 1) * 2 + 1],
                            shiftedData[(y - 1) * fftWidth * 2 + (x - 1) * 2 + 2]>> ],
                      fftHeight) ] \o <<>>
      rowOut == [ y \in 1..fftHeight |->
                    FFTinverseTransform([ x \in 1..fftWidth |-> colOut[x][y] ],
                                        fftWidth) ] \o <<>>
  IN  Interleave([ k \in 1..(fftWidth * fftHeight) |->
                     rowOut[((k - 1) \div fftWidth) + 1][((k - 1) % fftWidth) + 1] ]) \o <<>>

\* Math.round of a number that is not NaN
Round(a) == (2 * a[1] + a[2]) \div (2 * a[2])

\* min and max as the scan of realValues leaves them
RECURSIVE MinMaxLoop(_, _, _, _)
MinMaxLoop(realValues, i, min, max) ==
  IF i > Len(realValues) THEN <<min, max>>
  ELSE MinMaxLoop(realValues, i + 1,
                  IF RLess(realValues[i], min) THEN realValues[i] ELSE min,
                  IF RLess(max, realValues[i]) THEN realValues[i] ELSE max)

\* imageData[i] = Math.max(0, Math.min(255, Math.round(normalized))) in a
\* Uint8ClampedArray, which stores NaN as 0
ToPixel(normalized) ==
  IF IsNaN(normalized) THEN 0
  ELSE LET r == Round(normalized)
       IN  IF r < 0 THEN 0 ELSE IF r > 255 THEN 255 ELSE r

\* the real values complexToGrayscale extracts, row by row
RealValues(complexResult, fftWidth, outputWidth, outputHeight) ==
  [ k \in 1..(outputWidth * outputHeight) |->
      LET x   == (k - 1) % outputWidth
          y   == (k - 1) \div outputWidth
          idx == y * fftWidth + x
      IN  ReadAt(complexResult, idx * 2) ] \o <<>>

\* complexToGrayscale that reads the rows with the stride of the output
complexToGrayscaleOutputStride(complexResult, fftWidth, fftHeight, outputWidth, outputHeight) ==
  LET realValues == RealValues(complexResult, outputWidth, outputWidth, outputHeight)
      mm         == MinMaxLoop(realValues, 2, ReadAt(realValues, 0), ReadAt(realValues, 0))
      range      == RSub(mm[2], mm[1])
  IN  IF range = Zero \/ IsNaN(range)
      THEN [ k \in 1..(outputWidth * outputHeight) |-> 128 ]
      ELSE [ k \in 1..(outputWidth * outputHeight) |->
               ToPixel(RMul(RDiv(RSub(realValues[k], mm[1]), range), R(255))) ]

\* complexToGrayscale that scales the values without taking the minimum off
complexToGrayscaleNoOffset(complexResult, fftWidth, fftHeight, outputWidth, outputHeight) ==
  LET realValues == RealValues(complexResult, fftWidth, outputWidth, outputHeight)
      mm         == MinMaxLoop(realValues, 2, ReadAt(realValues, 0), ReadAt(realValues, 0))
      range      == RSub(mm[2], mm[1])
  IN  IF range = Zero \/ IsNaN(range)
      THEN [ k \in 1..(outputWidth * outputHeight) |-> 128 ]
      ELSE [ k \in 1..(outputWidth * outputHeight) |->
               ToPixel(RMul(RDiv(realValues[k], range), R(255))) ]

\* complexToGrayscale without the fallback for a degenerate range
complexToGrayscaleNoFallback(complexResult, fftWidth, fftHeight, outputWidth, outputHeight) ==
  LET realValues == RealValues(complexResult, fftWidth, outputWidth, outputHeight)
      mm         == MinMaxLoop(realValues, 2, ReadAt(realValues, 0), ReadAt(realValues, 0))
      range      == RSub(mm[2], mm[1])
  IN  [ k \in 1..(outputWidth * outputHeight) |->
          ToPixel(RMul(RDiv(RSub(realValues[k], mm[1]), range), R(255))) ]

complexToGrayscale(complexResult, fftWidth, fftHeight, outputWidth, outputHeight) ==
  LET realValues == RealValues(complexResult, fftWidth, outputWidth, outputHeight)
      mm         == MinMaxLoop(realValues, 2, ReadAt(realValues, 0), ReadAt(realValues, 0))
      range      == RSub(mm[2], mm[1])
  IN  IF range = Zero \/ IsNaN(range)
      THEN [ k \in 1..(outputWidth * outputHeight) |-> 128 ]
      ELSE [ k \in 1..(outputWidth * outputHeight) |->
               ToPixel(RMul(RDiv(RSub(realValues[k], mm[1]), range), R(255))) ]

\* performIFFT returns imageData; its local `result` is kept beside it as
\* complexResult
GrayscaleOf(result, fftWidth, fftHeight, outputWidth, outputHeight) ==
  [ complexResult |-> result,
    imageData     |-> complexToGrayscale(result, fftWidth, fftHeight,
                                         outputWidth, outputHeight) \o <<>> ]

performIFFT(complexData, fftWidth, fftHeight, outputWidth, outputHeight) ==
  GrayscaleOf(InverseResult(complexData, fftWidth, fftHeight),
              fftWidth, fftHeight, outputWidth, outputHeight)

(***************************************************************************)
(* FourierMixer.mix.  The value returned is a record: error is "" unless   *)
(* mix threw; mixedComplexData is the local of that name; complexResult is *)
(* the local `result` of performIFFT; imageData, width and height are the  *)
(* fields of the object mix returns.                                       *)
(***************************************************************************)
NoSources == "No images with FFT data to mix"

DimensionMismatch == "All images must have the same dimensions"

Thrown(msg) ==
  [ error |-> msg, mixedComplexData |-> <<>>, complexResult |-> <<>>, imageData |-> <<>>,
    width |-> 0, height |-> 0 ]

\* what mix returns once performIFFT has returned outputImage
MixReturn(mixedComplexData, outputImage, width, height) ==
  [ error            |-> "",
    mixedComplexData |-> mixedComplexData,
    complexResult    |-> outputImage.complexResult,
    imageData        |-> outputImage.imageData,
    width            |-> width,
    height           |-> height ]

\* the end of mix, from the mixed spectrum on
MixInverse(mixedComplexData, fftWidth, fftHeight, width, height) ==
  MixReturn(mixedComplexData,
            performIFFT(mixedComplexData, fftWidth, fftHeight, width, height),
            width, height)

mix(m) ==
  IF Len(m.processors) = 0 THEN Thrown(NoSources)
  ELSE LET width     == m.processors[1].width
           height    == m.processors[1].height
           fftWidth  == m.processors[1].fft.fftWidth
           fftHeight == m.processors[1].fft.fftHeight
       IN  IF \E j \in 1..Len(m.processors) :
                 m.processors[j].width # width \/ m.processors[j].height # height
           THEN Thrown(DimensionMismatch)
           ELSE MixInverse((IF m.mixMode = MagnitudePhase
                            THEN mixMagnitudePhase(m, fftWidth, fftHeight)
                            ELSE mixRealImaginary(m, fftWidth, fftHeight)) \o <<>>,
                           fftWidth, fftHeight, width, height)

\* a mix whose inverse shift works in place on the buffer of the first source
mixerAfterMixShiftedInPlace(m) ==
  IF Len(m.processors) = 0 THEN m
  ELSE [m EXCEPT !.processors[1].fft.complexData =
                    ifftShift(@, m.processors[1].fft.fftWidth, m.processors[1].fft.fftHeight)]

\* the mixer as mix() leaves it: mix, mixMagnitudePhase, mixRealImaginary,
\* createRegionMask, performIFFT, ifftShift and complexToGrayscale assign no
\* field of the mixer and no entry of a source buffer; every array they
\* write is one they created
mixerAfterMix(m) == m

(***************************************************************************)
(* FourierTransform: padding and the two-dimensional transform.            *)
(***************************************************************************)
padData(data, width, height, newWidth, newHeight) ==
  [ k \in 1..(newWidth * newHeight) |->
      LET x == (k - 1) % newWidth
          y == (k - 1) \div newWidth
      IN  IF x < width /\ y < height THEN data[y * width + x + 1] ELSE Zero ]

\* rows first, then columns; the result is interleaved [re, im, re, im, ...]
fft2D(data, width, height) ==
  LET rowOut == [ y \in 1..height |->
                    FFTtransform([ x \in 1..width |-> <<data[(y - 1) * width + x], Zero>> ],
                                 width) ] \o <<>>
      colOut == [ x \in 1..width |->
                    FFTtransform([ y \in 1..height |-> rowOut[y][x] ], height) ] \o <<>>
  IN  Interleave([ k \in 1..(width * height) |->
                     colOut[((k - 1) % width) + 1][((k - 1) \div width) + 1] ]) \o <<>>

\* FourierTransform.compute2DFFT: the transform object with complexData set
compute2DFFT(ft, grayscaleData) ==
  LET data       == [ k \in 1..Len(grayscaleData) |-> R(grayscaleData[k]) ]
      paddedData == padData(data, ft.width, ft.height, ft.fftWidth, ft.fftHeight)
      fftResult  == fft2D(paddedData, ft.fftWidth, ft.fftHeight)
  IN  [ft EXCEPT !.complexData = fftShiftComplex(fftResult, ft.fftWidth, ft.fftHeight)]

(***************************************************************************)
(* ImageProcessor.  A raster that is null is NullData; id names the        *)
(* processor.                                                              *)
(***************************************************************************)
\* new ImageProcessor()
NewImageProcessor(id) ==
  [ isNull |-> FALSE, id |-> id, width |-> 0, height |-> 0, grayscaleData |-> NullData,
    originalGrayscale |-> NullData, brightness |-> 0, contrast |-> 0, fft |-> NullFFT ]

\* ImageProcessor.loadImage once the image has loaded; pixels is the raster
\* convertToGrayscale stores.  brightness, contrast and fft are not assigned.
loadImage(p, width, height, pixels) ==
  [p EXCEPT !.width = width, !.height = height,
            !.grayscaleData = pixels, !.originalGrayscale = pixels]

\* an ImageProcessor right after its first loadImage: raster set, no spectrum yet
LoadedProcessor(id, width, height, pixels) ==
  loadImage(NewImageProcessor(id), width, height, pixels)

\* Math.floor of a rational that is not negative
Floor(a) == a[1] \div a[2]

\* ImageProcessor.resize: nearest neighbour; the resized raster becomes the
\* original one as well, brightness and contrast are reset, fft is not assigned
NearestNeighbour(data, width, height, newWidth, newHeight) ==
  LET xRatio == Norm(width, newWidth)
      yRatio == Norm(height, newHeight)
  IN  [ k \in 1..(newWidth * newHeight) |->
          LET x    == (k - 1) % newWidth
              y    == (k - 1) \div newWidth
              srcX == Floor(RMul(R(x), xRatio))
              srcY == Floor(RMul(R(y), yRatio))
          IN  data[srcY * width + srcX + 1] ] \o <<>>

resize(p, newWidth, newHeight) ==
  IF p.grayscaleData = NullData THEN p
  ELSE LET resized == NearestNeighbour(p.grayscaleData, p.width, p.height,
                                       newWidth, newHeight)
       IN  [p EXCEPT !.grayscaleData = resized, !.originalGrayscale = resized,
                     !.width = newWidth, !.height = newHeight,
                     !.brightness = 0, !.contrast = 0]

\* Math.max(-100, Math.min(100, v))
Clamp100(v) == IF v < -100 THEN -100 ELSE IF v > 100 THEN 100 ELSE v

\* the store of a number between 0 and 255 into a Uint8ClampedArray: the
\* nearest integer, the even one of two that are equally near
ToUint8Clamped(a) ==
  LET fl   == a[1] \div a[2]
      rem2 == 2 * (a[1] - fl * a[2])
  IN  IF rem2 < a[2] THEN fl
      ELSE IF rem2 > a[2] THEN fl + 1
      ELSE IF fl % 2 = 0 THEN fl ELSE fl + 1

\* applyAdjustments that adjusts the raster on display instead of the original
applyAdjustmentsCumulative(p) ==
  IF p.originalGrayscale = NullData THEN p
  ELSE LET contrastFactor == Norm(259 * (p.contrast + 255), 255 * (259 - p.contrast))
           Adjusted(v) ==
             LET pixel == RAdd(RAdd(RMul(contrastFactor, R(v - 128)), R(128)), R(p.brightness))
             IN  IF RLess(pixel, Zero) THEN 0
                 ELSE IF RLess(R(255), pixel) THEN 255
                 ELSE ToUint8Clamped(pixel)
       IN  [p EXCEPT !.grayscaleData =
                       [ k \in 1..Len(p.grayscaleData) |-> Adjusted(p.grayscaleData[k]) ]
                         \o <<>>]

\* ImageProcessor.applyAdjustments: grayscaleData is rebuilt from originalGrayscale
applyAdjustments(p) ==
  IF p.originalGrayscale = NullData THEN p
  ELSE LET contrastFactor == Norm(259 * (p.contrast + 255), 255 * (259 - p.contrast))
           Adjusted(v) ==
             LET pixel == RAdd(RAdd(RMul(contrastFactor, R(v - 128)), R(128)), R(p.brightness))
             IN  IF RLess(pixel, Zero) THEN 0
                 ELSE IF RLess(R(255), pixel) THEN 255
                 ELSE ToUint8Clamped(pixel)
       IN  [p EXCEPT !.grayscaleData =
                       [ k \in 1..Len(p.originalGrayscale) |-> Adjusted(p.originalGrayscale[k]) ]
                         \o <<>>]

adjustBrightness(p, delta) ==
  applyAdjustments([p EXCEPT !.brightness = Clamp100(p.brightness + delta)])

adjustContrast(p, delta) ==
  applyAdjustments([p EXCEPT !.contrast = Clamp100(p.contrast + delta)])

setBrightnessContrast(p, brightness, contrast) ==
  applyAdjustments([p EXCEPT !.brightness = Clamp100(brightness),
                             !.contrast = Clamp100(contrast)])

resetAdjustments(p) ==
  IF p.originalGrayscale = NullData
  THEN [p EXCEPT !.brightness = 0, !.contrast = 0]
  ELSE [p EXCEPT !.brightness = 0, !.contrast = 0, !.grayscaleData = p.originalGrayscale]

\* ImageProcessor.computeFFT
computeFFT(p) ==
  IF p.grayscaleData = NullData THEN p
  ELSE [p EXCEPT !.fft = compute2DFFT(FourierTransform(p.width, p.height), p.grayscaleData)]

\* the arithmetic of mix(m) stays within the rationals
MixIsExact(m) ==
  IF Len(m.processors) = 0 \/ m.mixMode = RealImaginary THEN TRUE
  ELSE PolarExact(m, m.processors[1].fft.fftWidth, m.processors[1].fft.fftHeight)

(***************************************************************************)
(* Inputs.                                                                 *)
(***************************************************************************)
\* the images that are loaded: <<width, height, pixels>>
Images ==
  << <<2, 2, <<1, 2, 3, 4>>>>,
     <<2, 2, <<0, 3, 1, 0>>>>,
     <<3, 2, <<3, 4, 0, 0, 0, 0>>>>,
     <<3, 2, <<1, 0, 2, 0, 1, 1>>>>,
     <<3, 2, <<5, 0, 0, 2, 0, 0>>>> >>

\* the processor holding image id once its FFT has been computed
ProcessorWithFFT(id) ==
  computeFFT(LoadedProcessor(id, Images[id][1], Images[id][2], Images[id][3]))

Viewports == 1..4

MixModes == {MagnitudePhase, RealImaginary}

RegionTypes == {"inner", "outer"}

\* region sizes handed to setRegionConfig
RegionSizes == {0, 50, 100}

RegionConfigs ==
  {NullConfig, RegionConfig(FALSE, "inner", 50)}
    \cup {RegionConfig(TRUE, t, z) : t \in RegionTypes, z \in RegionSizes}

\* raw weights, in hundredths as the sliders give them
WeightValues == {Norm(0, 100), Norm(25, 100), Norm(100, 100), Norm(-25, 100)}

\* the slider positions used when a mix follows
MixWeightValues == {Norm(0, 100), Norm(25, 100), Norm(100, 100)}

SeqsUpTo(S, n) == UNION {[1..k -> S] : k \in 0..n}

FFTDims == {Pow2(k) : k \in 1..MaxLog}

(***************************************************************************)
(* The FourierMixer driven through its methods.                            *)
(***************************************************************************)
\* an operation that has returned, and one about to be applied
Called(op, args) == [ op |-> op, args |-> args, returned |-> TRUE ]

Calling(op, args) == [ op |-> op, args |-> args, returned |-> FALSE ]

NoReturn == <<>>

\* no ComponentMixer is mounted
NoComponent == [ mounted |-> FALSE ]

\* useState(null) of targetSize
NullSize == [ isNull |-> TRUE, width |-> 0, height |-> 0 ]

AppIdle ==
  /\ loadedImages = [v \in Viewports |-> NoProcessor]
  /\ targetSize = NullSize
  /\ sourceImage = [v \in Viewports |-> NullData]
  /\ weights = [v \in Viewports |-> Norm(25, 100)]
  /\ mixMode = MagnitudePhase
  /\ regionConfig = RegionConfig(FALSE, "inner", 50)
  /\ selectedOutput = 1
  /\ outputData1 = NoReturn
  /\ outputData2 = NoReturn
  /\ timers = <<>>
  /\ gestures = 0
  /\ viewportProcessor = [v \in Viewports |-> NewImageProcessor(v)]
  /\ component = NoComponent

InitMixer ==
  /\ AppIdle
  /\ mixer = NewFourierMixer
  /\ call = Called("new", <<>>)
  /\ ret = NoReturn

\* the processors handed to setProcessors: with a spectrum, without one, null
\* the images whose processors are handed to setProcessors
MixerImages == {1, 3, 4}

ProcessorInputs ==
  {ProcessorWithFFT(id) : id \in MixerImages}
    \cup {NoProcessor, LoadedProcessor(1, Images[1][1], Images[1][2], Images[1][3])}

\* The mixer is used as App.autoMix uses it: a new mixer, then setProcessors,
\* setWeights, setMixMode, setRegionConfig and mix, in this order.
MNew ==
  /\ call.op \in {"mix", "createRegionMask"}
  /\ mixer' = NewFourierMixer
  /\ call' = Called("new", <<>>)
  /\ ret' = NoReturn
  /\ UNCHANGED appVars

MSetProcessors ==
  /\ call.op = "new"
  /\ \E ps \in SeqsUpTo(ProcessorInputs, MaxSources) :
       /\ mixer' = setProcessors(mixer, ps)
       /\ call' = Called("setProcessors", <<ps>>)
  /\ ret' = NoReturn
  /\ UNCHANGED appVars

MSetWeights ==
  /\ call.op = "setProcessors"
  /\ \E ws \in SeqsUpTo(MixWeightValues, MaxWeights) :
       /\ mixer' = setWeights(mixer, ws)
       /\ call' = Called("setWeights", <<ws>>)
  /\ ret' = NoReturn
  /\ UNCHANGED appVars

MSetMixMode ==
  /\ call.op = "setWeights"
  /\ \E mode \in MixModes \cup {"magnitude"} :
       /\ mixer' = setMixMode(mixer, mode)
       /\ call' = Called("setMixMode", <<mode>>)
  /\ ret' = NoReturn
  /\ UNCHANGED appVars

MSetRegionConfig ==
  /\ call.op = "setMixMode"
  /\ \E config \in RegionConfigs :
       /\ mixer' = setRegionConfig(mixer, config)
       /\ call' = Called("setRegionConfig", <<config>>)
  /\ ret' = NoReturn
  /\ UNCHANGED appVars

MMix ==
  /\ call.op = "setRegionConfig"
  /\ MixIsExact(mixer) = TRUE
  /\ call' = Called("mix", <<mixer>>)
  /\ ret' = mix(mixer)
  /\ mixer' = mixerAfterMix(mixer)
  /\ UNCHANGED appVars

\* createRegionMask takes the grid from its caller; it is called here on the
\* mixers that hold no source, whatever their other settings
MCreateRegionMask ==
  /\ call.op = "setRegionConfig"
  /\ ~mixer.regionConfig.isNull
  /\ ~canMix(mixer)
  /\ \E width \in FFTDims, height \in FFTDims :
       /\ call' = Called("createRegionMask", <<width, height>>)
       /\ ret' = createRegionMask(width, height, mixer.regionConfig)
  /\ UNCHANGED <<mixer, appVars>>

NextMixer ==
  \/ MNew
  \/ MSetProcessors
  \/ MSetWeights
  \/ MSetMixMode
  \/ MSetRegionConfig
  \/ MMix
  \/ MCreateRegionMask

SpecMixer == InitMixer /\ [][NextMixer]_vars

(***************************************************************************)
(* setWeights over every weight vector.                                    *)
(***************************************************************************)
InitWeights ==
  /\ AppIdle
  /\ mixer = NewFourierMixer
  /\ \E ws \in SeqsUpTo(WeightValues, MaxWeightLen) : call = Calling("setWeights", <<ws>>)
  /\ ret = NoReturn

WeightsCall ==
  /\ ~call.returned
  /\ mixer' = setWeights(mixer, call.args[1])
  /\ call' = Called(call.op, call.args)
  /\ UNCHANGED <<ret, appVars>>

SpecWeights == InitWeights /\ [][WeightsCall]_vars

(***************************************************************************)
(* createRegionMask over every region size.                                *)
(***************************************************************************)
InitMask ==
  /\ AppIdle
  /\ \E width \in FFTDims, height \in FFTDims, type \in RegionTypes, size \in 0..MaxSize :
       /\ mixer = setRegionConfig(NewFourierMixer, RegionConfig(TRUE, type, size))
       /\ call = Calling("createRegionMask", <<width, height>>)
  /\ ret = NoReturn

MaskCall ==
  /\ ~call.returned
  /\ call' = Called(call.op, call.args)
  /\ ret' = createRegionMask(call.args[1], call.args[2], mixer.regionConfig)
  /\ UNCHANGED <<mixer, appVars>>

SpecMask == InitMask /\ [][MaskCall]_vars

(***************************************************************************)
(* The padded size of a FourierTransform.                                  *)
(***************************************************************************)
InitDims ==
  /\ AppIdle
  /\ mixer = NewFourierMixer
  /\ \/ \E n \in 0..MaxN : call = Calling("nextPowerOf2", <<n>>)
     \/ \E width \in 0..MaxCtorDim, height \in 0..MaxCtorDim :
          call = Calling("FourierTransform", <<width, height>>)
  /\ ret = NoReturn

DimCall ==
  /\ ~call.returned
  /\ call.op = "nextPowerOf2"
  /\ call' = Called(call.op, call.args)
  /\ ret' = nextPowerOf2(call.args[1])
  /\ UNCHANGED <<mixer, appVars>>

CtorCall ==
  /\ ~call.returned
  /\ call.op = "FourierTransform"
  /\ call' = Called(call.op, call.args)
  /\ ret' = FourierTransform(call.args[1], call.args[2])
  /\ UNCHANGED <<mixer, appVars>>

NextDims == DimCall \/ CtorCall

SpecDims == InitDims /\ [][NextDims]_vars

(***************************************************************************)
(* fftShiftComplex.                                                        *)
(***************************************************************************)
\* a spectrum whose 2 * cells entries are pairwise different
TaggedData(cells, t) == [ k \in 1..(2 * cells) |-> R(t + k) ]

\* every spectrum of n cells with entries 0 and 1
BinaryData(cells) == [1..(2 * cells) -> {Zero, One}]

InitShift ==
  /\ AppIdle
  /\ mixer = NewFourierMixer
  /\ \E width \in FFTDims, height \in FFTDims :
       \E data \in {TaggedData(width * height, t) : t \in 0..MaxTag}
                     \cup (IF width * height <= MaxBinaryCells
                           THEN BinaryData(width * height) ELSE {}) :
         call = Calling("fftShiftComplex", <<data, width, height>>)
  /\ ret = NoReturn

ShiftCall ==
  /\ ~call.returned
  /\ call' = Called(call.op, call.args)
  /\ ret' = fftShiftComplex(call.args[1], call.args[2], call.args[3])
  /\ UNCHANGED <<mixer, appVars>>

\* the mixer undoes the shift of the spectrum it was handed
InverseShiftCall ==
  /\ call.op = "fftShiftComplex"
  /\ call.returned
  /\ call' = Called("ifftShift", <<ret, call.args[2], call.args[3]>>)
  /\ ret' = ifftShift(ret, call.args[2], call.args[3])
  /\ UNCHANGED <<mixer, appVars>>

NextShift == ShiftCall \/ InverseShiftCall

SpecShift == InitShift /\ [][NextShift]_vars

(***************************************************************************)
(* The forward transform: new FourierTransform(width, height) followed by  *)
(* compute2DFFT(grayscaleData), as ImageProcessor.computeFFT calls them.    *)
(* Neither has a throw statement, and fft.js accepts every size            *)
(* nextPowerOf2 yields, so the outcome carries no error.                   *)
(***************************************************************************)
InvalidInput == "InvalidInput"

ForwardTransform(width, height, grayscaleData) ==
  [ error |-> "",
    fft   |-> compute2DFFT(FourierTransform(width, height), grayscaleData) ]

ForwardPixels == {0, 128, 255}

\* the rasters of width * height pixels that are transformed
ForwardRasters(width, height) ==
  IF width * height <= MaxBinaryCells
  THEN [1..(width * height) -> ForwardPixels]
  ELSE {[ k \in 1..(width * height) |-> t + k ] : t \in 0..MaxTag}

InitForward ==
  /\ AppIdle
  /\ mixer = NewFourierMixer
  /\ \E width \in 0..MaxSide, height \in 0..MaxSide :
       \E data \in ForwardRasters(width, height) :
         call = Calling("compute2DFFT", <<width, height, data>>)
  /\ ret = NoReturn

ForwardCall ==
  /\ ~call.returned
  /\ call' = Called(call.op, call.args)
  /\ ret' = ForwardTransform(call.args[1], call.args[2], call.args[3])
  /\ UNCHANGED <<mixer, appVars>>

NextForward == ForwardCall

SpecForward == InitForward /\ [][NextForward]_vars

(***************************************************************************)
(* complexToGrayscale.  The inverse transform hands it real values of any   *)
(* sign on the padded grid, or NaN everywhere when a weight was missing.    *)
(***************************************************************************)
\* <<fftWidth, fftHeight, outputWidth, outputHeight>>
GrayDims == {<<2, 2, 2, 2>>, <<4, 2, 3, 2>>}

GrayValues(d) == IF d[1] = d[3] THEN {R(v) : v \in (-1)..MaxGray} \cup {Norm(1, 2)}
                 ELSE {R(0), R(1), R(MaxGray)}

\* an inverse result whose cells under the output hold vals, row by row, and
\* whose padding cells hold pad
GrayResult(d, vals, pad) ==
  Interleave([ c \in 1..(d[1] * d[2]) |->
                 LET x == (c - 1) % d[1]
                     y == (c - 1) \div d[1]
                 IN  IF x < d[3] /\ y < d[4] THEN <<vals[y * d[3] + x + 1], Zero>>
                     ELSE <<pad, Zero>> ]) \o <<>>

InitGray ==
  /\ AppIdle
  /\ mixer = NewFourierMixer
  /\ \E d \in GrayDims :
       \E vals \in [1..(d[3] * d[4]) -> GrayValues(d)] \cup {[k \in 1..(d[3] * d[4]) |-> NaN]} :
         call = Calling("complexToGrayscale",
                        <<GrayResult(d, vals, IF IsNaN(vals[1]) THEN NaN ELSE R(MaxGray + 6)),
                          d[1], d[2], d[3], d[4]>>)
  /\ ret = NoReturn

GrayCall ==
  /\ ~call.returned
  /\ call' = Called(call.op, call.args)
  /\ ret' = complexToGrayscale(call.args[1], call.args[2], call.args[3],
                               call.args[4], call.args[5]) \o <<>>
  /\ UNCHANGED <<mixer, appVars>>

NextGray == GrayCall

SpecGray == InitGray /\ [][NextGray]_vars

(***************************************************************************)
(* The auto-mixing App.  Every viewport owns one ImageProcessor; the App   *)
(* keeps the processors of the viewports that reported an image, and every *)
(* autoMix reads them as they are when it runs.  Every load sets the       *)
(* target size to the least width and height of the registered processors, *)
(* and every viewport then resizes its processor to it.                    *)
(***************************************************************************)
\* the files a viewport can load
Files == {1, 2, 5}

\* slider positions
SliderValues == {Norm(0, 100), Norm(25, 100), Norm(100, 100)}

\* the configurations OutputViewport reports
ReportedConfigs == {RegionConfig(e, t, 50) : e \in BOOLEAN, t \in RegionTypes}

\* what the functions created by the current render see
Render ==
  [ loaded         |-> {v \in Viewports : ~loadedImages[v].isNull},
    weights        |-> weights,
    mixMode        |-> mixMode,
    regionConfig   |-> regionConfig,
    selectedOutput |-> selectedOutput ]

getProcessorsArray(c, live) ==
  [ v \in Viewports |-> IF v \in c.loaded THEN live[v] ELSE NoProcessor ]

\* the mixer autoMix configures
AutoMixer(c, live) ==
  setRegionConfig(
    setMixMode(
      setWeights(
        setProcessors(NewFourierMixer, SelectSeq(getProcessorsArray(c, live), KeepWithFFT)),
        c.weights),
      c.mixMode),
    c.regionConfig)

\* autoMix of the render c: whether a mixer was built, the mixer, the result of
\* mix(), and the two ports afterwards
AutoMixReturn(c, m, result, out1, out2) ==
  [ ran |-> TRUE, mixer |-> m, result |-> result,
    outputData1 |-> IF result.error = "" /\ c.selectedOutput = 1 THEN result ELSE out1,
    outputData2 |-> IF result.error = "" /\ c.selectedOutput # 1 THEN result ELSE out2 ]

AutoMixWith(c, m, out1, out2) == AutoMixReturn(c, m, mix(m), out1, out2)

autoMix(c, live, out1, out2) ==
  IF Len(SelectSeq(getProcessorsArray(c, live), KeepWithFFT)) = 0
  THEN [ ran |-> FALSE, mixer |-> NewFourierMixer, result |-> NoReturn,
         outputData1 |-> out1, outputData2 |-> out2 ]
  ELSE AutoMixWith(c, AutoMixer(c, live), out1, out2)

\* the autoMix of the render c that follows the autoMix that left first
autoMixAfter(c, live, first) == autoMix(c, live, first.outputData1, first.outputData2)

\* the state an autoMix leaves behind
AfterAutoMix(op, args, r) ==
  /\ outputData1' = r.outputData1
  /\ outputData2' = r.outputData2
  /\ mixer' = r.mixer
  /\ ret' = r.result
  /\ call' = Called(op, args)

CallTimer(id) == [ kind |-> "computeFFT", id |-> id ]

\* the least of a non-empty set of integers
Least(S) == CHOOSE n \in S : \A k \in S : n <= k

\* the greatest of a non-empty set of integers
Greatest(S) == CHOOSE n \in S : \A k \in S : n >= k

\* updateTargetSize that takes the greatest width and height
updateTargetSizeGreatest(images) ==
  LET registered == {v \in Viewports : ~images[v].isNull}
  IN  [ isNull |-> FALSE,
        width  |-> Greatest({images[v].width : v \in registered}),
        height |-> Greatest({images[v].height : v \in registered}) ]

\* App.updateTargetSize: the least width and the least height of the
\* registered processors
updateTargetSize(images) ==
  LET registered == {v \in Viewports : ~images[v].isNull}
  IN  [ isNull |-> FALSE,
        width  |-> Least({images[v].width : v \in registered}),
        height |-> Least({images[v].height : v \in registered}) ]

\* the effect of every ImageViewport on [targetSize]: the processor that
\* holds an image is resized
ResizedToTarget(live, size) ==
  [ v \in Viewports |->
      IF live[v].isNull \/ live[v].grayscaleData = NullData THEN live[v]
      ELSE resize(live[v], size.width, size.height) ]

\* ... and computeFFT is scheduled where a spectrum exists, viewport by viewport
RECURSIVE RecomputeTimers(_, _)
RecomputeTimers(live, v) ==
  IF v \notin Viewports THEN <<>>
  ELSE (IF ~live[v].isNull /\ live[v].grayscaleData # NullData /\ hasFFT(live[v])
        THEN <<CallTimer(v)>> ELSE <<>>) \o RecomputeTimers(live, v + 1)

MixTimer(c) == [ kind |-> "autoMix", render |-> c ]

InitApp ==
  /\ AppIdle
  /\ mixer = NewFourierMixer
  /\ call = Called("mount", <<>>)
  /\ ret = NoReturn

\* ImageViewport.handleFileChange with App.handleImageLoaded
\* the processors are resized to the new target size by the effect of every
\* viewport on [targetSize], which runs once the handler has returned
HandleFileChange ==
  /\ gestures < MaxGestures
  /\ \E id \in Viewports, f \in Files :
       LET newLoadedImages ==
             [loadedImages EXCEPT
                ![id] = LoadedProcessor(id, Images[f][1], Images[f][2], Images[f][3])]
           size == updateTargetSize(newLoadedImages)
           scheduled == <<CallTimer(id)>> \o RecomputeTimers(newLoadedImages, 1)
       IN  /\ loadedImages[id].isNull
           /\ Len(timers) + Len(scheduled) <= MaxTimers
           /\ targetSize' = size
           /\ loadedImages' = ResizedToTarget(newLoadedImages, size)
           /\ sourceImage' =
                [ v \in Viewports |->
                    IF newLoadedImages[v].isNull THEN NullData
                    ELSE NearestNeighbour(IF v = id THEN Images[f][3] ELSE sourceImage[v],
                                          newLoadedImages[v].width, newLoadedImages[v].height,
                                          size.width, size.height) ]
           /\ timers' = timers \o scheduled
           /\ call' = Called("handleFileChange", <<id, f>>)
  /\ gestures' = gestures + 1
  /\ ret' = NoReturn
  /\ UNCHANGED <<viewportProcessor, component, weights, mixMode, regionConfig, selectedOutput, outputData1,
                 outputData2, mixer>>

\* the callback ImageViewport.computeFFT scheduled
ComputeFFTFires ==
  /\ timers # <<>>
  /\ Head(timers).kind = "computeFFT"
  /\ loadedImages' = [loadedImages EXCEPT
       ![Head(timers).id] = computeFFT(loadedImages[Head(timers).id])]
  /\ timers' = Tail(timers)
  /\ call' = Called("computeFFT", <<Head(timers).id>>)
  /\ ret' = NoReturn
  /\ UNCHANGED <<viewportProcessor, component, targetSize, sourceImage, weights, mixMode, regionConfig, selectedOutput,
                 outputData1, outputData2, gestures, mixer>>

\* App.handleWeightChange, then the effect on [weights, ...]
HandleWeightChange ==
  /\ gestures < MaxGestures
  /\ Len(timers) < MaxTimers
  /\ \E id \in Viewports, newWeight \in SliderValues :
       /\ hasFFT(loadedImages[id])
       /\ newWeight # weights[id]
       /\ weights' = [weights EXCEPT ![id] = newWeight]
       /\ timers' = Append(timers, MixTimer(Render))
       /\ AfterAutoMix("handleWeightChange", <<id, newWeight>>,
            autoMix([Render EXCEPT !.weights = weights'], loadedImages,
                    outputData1, outputData2))
  /\ gestures' = gestures + 1
  /\ UNCHANGED <<viewportProcessor, component, loadedImages, targetSize, sourceImage, mixMode, regionConfig,
                 selectedOutput>>

\* setMixMode from the mode selector, then the effect
SetMixMode ==
  /\ gestures < MaxGestures
  /\ \E mode \in MixModes :
       /\ mode # mixMode
       /\ mixMode' = mode
       /\ AfterAutoMix("setMixMode", <<mode>>,
            autoMix([Render EXCEPT !.mixMode = mode], loadedImages,
                    outputData1, outputData2))
  /\ gestures' = gestures + 1
  /\ UNCHANGED <<viewportProcessor, component, loadedImages, targetSize, sourceImage, weights, regionConfig,
                 selectedOutput, timers>>

\* setSelectedOutput from the port selector, then the effect
SetSelectedOutput ==
  /\ gestures < MaxGestures
  /\ \E port \in {1, 2} :
       /\ port # selectedOutput
       /\ selectedOutput' = port
       /\ AfterAutoMix("setSelectedOutput", <<port>>,
            autoMix([Render EXCEPT !.selectedOutput = port], loadedImages,
                    outputData1, outputData2))
  /\ gestures' = gestures + 1
  /\ UNCHANGED <<viewportProcessor, component, loadedImages, targetSize, sourceImage, weights, mixMode, regionConfig,
                 timers>>

\* App.handleRegionConfigChange: autoMix of the current render, then the effect
HandleRegionConfigChange ==
  /\ gestures < MaxGestures
  /\ \E config \in ReportedConfigs :
       /\ regionConfig' = config
       /\ AfterAutoMix("handleRegionConfigChange", <<config>>,
            autoMixAfter([Render EXCEPT !.regionConfig = config], loadedImages,
                         autoMix(Render, loadedImages, outputData1, outputData2)))
  /\ gestures' = gestures + 1
  /\ UNCHANGED <<viewportProcessor, component, loadedImages, targetSize, sourceImage, weights, mixMode, selectedOutput,
                 timers>>

\* the autoMix handleWeightChange scheduled, with the render it was created in
AutoMixFires ==
  /\ timers # <<>>
  /\ Head(timers).kind = "autoMix"
  /\ timers' = Tail(timers)
  /\ AfterAutoMix("autoMix", <<Head(timers).render>>,
       autoMix(Head(timers).render, loadedImages, outputData1, outputData2))
  /\ UNCHANGED <<viewportProcessor, component, loadedImages, targetSize, sourceImage, weights, mixMode, regionConfig,
                 selectedOutput, gestures>>

Next ==
  \/ HandleFileChange
  \/ ComputeFFTFires
  \/ HandleWeightChange
  \/ SetMixMode
  \/ SetSelectedOutput
  \/ HandleRegionConfigChange
  \/ AutoMixFires

Spec == InitApp /\ [][Next]_vars

(***************************************************************************)
(* One ImageProcessor, the one of viewport 1, taken through its methods in *)
(* any order: loadImage, the brightness/contrast methods, resetAdjustments, *)
(* resize and computeFFT.  sourceImage follows the image that was loaded:   *)
(* it is resized with the processor and never adjusted.                    *)
(***************************************************************************)
BrightnessValues == {-50, 0, 50}

ContrastValues == {0, 100}

ResizeTargets == {<<2, 2>>, <<1, 1>>}

ProcessorStep(op, args, p, source) ==
  /\ gestures' = gestures + 1
  /\ loadedImages' = [loadedImages EXCEPT ![1] = p]
  /\ sourceImage' = [sourceImage EXCEPT ![1] = source]
  /\ call' = Called(op, args)
  /\ ret' = NoReturn
  /\ UNCHANGED <<viewportProcessor, component, targetSize, weights, mixMode, regionConfig, selectedOutput, outputData1,
                 outputData2, timers, mixer>>

InitProcessor ==
  /\ loadedImages = [v \in Viewports |-> IF v = 1 THEN NewImageProcessor(1) ELSE NoProcessor]
  /\ targetSize = NullSize
  /\ sourceImage = [v \in Viewports |-> NullData]
  /\ weights = [v \in Viewports |-> Norm(25, 100)]
  /\ mixMode = MagnitudePhase
  /\ regionConfig = RegionConfig(FALSE, "inner", 50)
  /\ selectedOutput = 1
  /\ outputData1 = NoReturn
  /\ outputData2 = NoReturn
  /\ timers = <<>>
  /\ gestures = 0
  /\ viewportProcessor = [v \in Viewports |-> NewImageProcessor(v)]
  /\ component = NoComponent
  /\ mixer = NewFourierMixer
  /\ call = Called("new ImageProcessor", <<>>)
  /\ ret = NoReturn

PLoadImage ==
  /\ gestures < MaxProcessorOps
  /\ \E f \in Files :
    ProcessorStep("loadImage", <<f>>,
                  loadImage(loadedImages[1], Images[f][1], Images[f][2], Images[f][3]),
                  Images[f][3])

PSetBrightnessContrast ==
  /\ gestures < MaxProcessorOps
  /\ \E b \in BrightnessValues, c \in ContrastValues :
    ProcessorStep("setBrightnessContrast", <<b, c>>,
                  setBrightnessContrast(loadedImages[1], b, c), sourceImage[1])

PAdjustBrightness ==
  /\ gestures < MaxProcessorOps
  /\ \E delta \in BrightnessValues :
    ProcessorStep("adjustBrightness", <<delta>>,
                  adjustBrightness(loadedImages[1], delta), sourceImage[1])

PAdjustContrast ==
  /\ gestures < MaxProcessorOps
  /\ \E delta \in ContrastValues :
    ProcessorStep("adjustContrast", <<delta>>,
                  adjustContrast(loadedImages[1], delta), sourceImage[1])

PResetAdjustments ==
  /\ gestures < MaxProcessorOps
  /\ ProcessorStep("resetAdjustments", <<>>, resetAdjustments(loadedImages[1]), sourceImage[1])

PResize ==
  /\ gestures < MaxProcessorOps
  /\ loadedImages[1].grayscaleData # NullData
  /\ \E size \in ResizeTargets :
    ProcessorStep("resize", <<size[1], size[2]>>,
                     resize(loadedImages[1], size[1], size[2]),
                     NearestNeighbour(sourceImage[1], loadedImages[1].width,
                                      loadedImages[1].height, size[1], size[2]))

\* computeFFT; the argument recorded is the raster handed to compute2DFFT
PComputeFFT ==
  /\ gestures < MaxProcessorOps
  /\ loadedImages[1].grayscaleData # NullData
  /\ ProcessorStep("processor.computeFFT", <<loadedImages[1].grayscaleData>>,
                   computeFFT(loadedImages[1]), sourceImage[1])

NextProcessor ==
  \/ PLoadImage
  \/ PSetBrightnessContrast
  \/ PAdjustBrightness
  \/ PAdjustContrast
  \/ PResetAdjustments
  \/ PResize
  \/ PComputeFFT

SpecProcessor == InitProcessor /\ [][NextProcessor]_vars

(***************************************************************************)
(* Display adjustment: FourierTransform.applyBrightnessContrast and the     *)
(* applyAdjustments closure of OutputViewport.  Both fill a fresh           *)
(* Uint8ClampedArray and never assign to an element of their input.  The    *)
(* viewport moves brightness and contrast in steps of one half.             *)
(***************************************************************************)
MaxAdjustLen == 2

\* Math.max(0, Math.min(255, pixel))
Clamp255(pixel) ==
  IF RLess(R(255), pixel) THEN R(255) ELSE IF RLess(pixel, Zero) THEN Zero ELSE pixel

\* (259 * (contrast + 255)) / (255 * (259 - contrast))
ContrastFactor(contrast) ==
  RDiv(RMul(R(259), RAdd(contrast, R(255))), RMul(R(255), RSub(R(259), contrast)))

\* the loop body: contrast about 128, then brightness, then the clamped store
AdjustedPixel(p, brightness, contrast) ==
  ToUint8Clamped(Clamp255(RAdd(RAdd(RMul(ContrastFactor(contrast), R(p - 128)), R(128)),
                               brightness)))

\* the loop body without the "+ 128" that moves the pivot back
AdjustedPixelNoPivot(p, brightness, contrast) ==
  ToUint8Clamped(Clamp255(RAdd(RMul(ContrastFactor(contrast), R(p - 128)), brightness)))

applyBrightnessContrastNoPivot(componentData, brightness, contrast) ==
  IF componentData = NullData THEN NullData
  ELSE [ i \in 1..Len(componentData) |->
           AdjustedPixelNoPivot(componentData[i], brightness, contrast) ] \o <<>>

\* FourierTransform.applyBrightnessContrast
applyBrightnessContrast(componentData, brightness, contrast) ==
  IF componentData = NullData THEN NullData
  ELSE [ i \in 1..Len(componentData) |->
           AdjustedPixel(componentData[i], brightness, contrast) ] \o <<>>

\* OutputViewport's applyAdjustments(data, brightness, contrast)
viewportApplyAdjustments(data, brightness, contrast) ==
  [ i \in 1..Len(data) |-> AdjustedPixel(data[i], brightness, contrast) ] \o <<>>

\* the input array once the function has returned: no element was assigned
inputAfterAdjust(componentData, brightness, contrast) == componentData

AdjustPixels == {0, 1, 128, 129, 200, 255}

AdjustBrightness == {R(-100), Zero, Norm(1, 2), R(50)}

AdjustContrast == {R(-100), Zero, R(50), R(100)}

AdjustRasters == UNION {[1..n -> AdjustPixels] : n \in 1..MaxAdjustLen}

InitAdjust ==
  /\ AppIdle
  /\ mixer = NewFourierMixer
  /\ \E b \in AdjustBrightness, c \in AdjustContrast :
       \/ \E data \in AdjustRasters \cup {NullData} :
            call = Calling("applyBrightnessContrast", <<data, b, c>>)
       \/ \E data \in AdjustRasters :
            call = Calling("applyAdjustments", <<data, b, c>>)
  /\ ret = NoReturn

AdjustCall ==
  /\ ~call.returned
  /\ call.op = "applyBrightnessContrast"
  /\ call' = Called(call.op, call.args)
  /\ ret' = [ adjusted |-> applyBrightnessContrast(call.args[1], call.args[2], call.args[3]),
              input    |-> inputAfterAdjust(call.args[1], call.args[2], call.args[3]) ]
  /\ UNCHANGED <<mixer, appVars>>

ViewportAdjustCall ==
  /\ ~call.returned
  /\ call.op = "applyAdjustments"
  /\ call' = Called(call.op, call.args)
  /\ ret' = [ adjusted |-> viewportApplyAdjustments(call.args[1], call.args[2], call.args[3]),
              input    |-> inputAfterAdjust(call.args[1], call.args[2], call.args[3]) ]
  /\ UNCHANGED <<mixer, appVars>>

NextAdjust ==
  \/ AdjustCall
  \/ ViewportAdjustCall

SpecAdjust == InitAdjust /\ [][NextAdjust]_vars

(***************************************************************************)
(* mixMagnitudePhase on spectra with phases on both sides of +-180 degrees. *)
(* The sources are 4x1 images (a 4x2 grid) whose spectra have rational      *)
(* magnitudes: [0,3,4,0] has -4 - 3i in its second cell and [0,0,4,3] has   *)
(* -4 + 3i there, phases -143.1 and +143.1 degrees.                          *)
(***************************************************************************)
MaxPhaseSources == 2

PhaseRasters ==
  { <<0, 3, 4, 0>>, <<0, 0, 4, 3>>, <<4, 3, 0, 0>>, <<4, 0, 0, 3>>, <<5, 0, 0, 0>>,
    <<0, 0, 5, 0>> }

PhaseProcessors == { computeFFT(LoadedProcessor(1, 4, 1, pixels)) : pixels \in PhaseRasters }

PhaseWeights == {Zero, Norm(25, 100), Norm(100, 100)}

PhaseConfigs == {NullConfig, RegionConfig(TRUE, "inner", 50)}

\* a mixer set up as mix() finds it, in magnitude/phase mode
PhaseMixer(ps, ws, config) ==
  setRegionConfig(setMixMode(setWeights(setProcessors(NewFourierMixer, ps), ws),
                             MagnitudePhase), config)

\* the mixers whose mix stays within the rationals
PhaseMixers ==
  { m \in UNION { { PhaseMixer(ps, ws, config) :
                      ps \in [1..n -> PhaseProcessors], ws \in [1..n -> PhaseWeights],
                      config \in PhaseConfigs } : n \in 1..MaxPhaseSources } :
      PolarExact(m, 4, 2) }

InitPhase ==
  /\ AppIdle
  /\ mixer \in PhaseMixers
  /\ call = Calling("mixMagnitudePhase", <<4, 2>>)
  /\ ret = NoReturn

PhaseCall ==
  /\ ~call.returned
  /\ call' = Called(call.op, call.args)
  /\ ret' = mixMagnitudePhase(mixer, call.args[1], call.args[2])
  /\ UNCHANGED <<mixer, appVars>>

NextPhase == PhaseCall

SpecPhase == InitPhase /\ [][NextPhase]_vars

(***************************************************************************)
(* ComponentMixer.  Its props are the processors, weights, mixMode and      *)
(* regionConfig of the parent; component holds its state (isMixing), its    *)
(* refs (cancelRef, debounceTimerRef, mixCountRef) and the calls of onMix.   *)
(* A function created by a render sees the props and the state of that      *)
(* render.  timers holds the pending setTimeout callbacks: the 300 ms        *)
(* debounce timer and the two 50 ms waits of performMix.  A 50 ms wait that  *)
(* is pending was started before any pending debounce timer and ends before  *)
(* it.  component.burst says that the settings have changed and 300 ms have  *)
(* not yet passed since; component.bursts lists the settings at the end of   *)
(* every burst.  The processors do not change while the component is         *)
(* mounted.                                                                 *)
(***************************************************************************)
MaxChanges == 3

\* availableProcessors.length > 0
ComponentCanMix == \E v \in Viewports : KeepWithFFT(loadedImages[v])

\* what a render with these props and this state hands to its closures
ComponentRender(ws, mode, config, isMixing) ==
  [ availableProcessors |-> {v \in Viewports : KeepWithFFT(loadedImages[v])},
    weights |-> ws, mixMode |-> mode, regionConfig |-> config, isMixing |-> isMixing ]

\* the arguments of onMix(availableProcessors, weights, mixMode, regionConfig)
OnMixArgs(c) ==
  [ availableProcessors |-> c.availableProcessors, weights |-> c.weights,
    mixMode |-> c.mixMode, regionConfig |-> c.regionConfig ]

clearTimeout(ts, id) == SelectSeq(ts, LAMBDA t : t.id # id)

\* the debounce effect that schedules without clearing the timer before
DebounceEffectNoClear(comp, ts, c) ==
  IF ~ComponentCanMix THEN [ component |-> comp, timers |-> ts ]
  ELSE [ component |-> [comp EXCEPT !.debounceTimerRef = comp.timerIds + 1,
                                    !.timerIds = comp.timerIds + 1],
         timers    |-> Append(ts, [ kind |-> "debounce", id |-> comp.timerIds + 1,
                                    render |-> c ]) ]

\* the effect on [weightsKey, mixMode, regionConfigKey, canMix] of the render
\* c, after the cleanup of the effect before it
DebounceEffect(comp, ts, c) ==
  IF ~ComponentCanMix THEN [ component |-> comp, timers |-> ts ]
  ELSE [ component |-> [comp EXCEPT !.debounceTimerRef = comp.timerIds + 1,
                                    !.timerIds = comp.timerIds + 1],
         timers    |-> Append(clearTimeout(ts, comp.debounceTimerRef),
                              [ kind |-> "debounce", id |-> comp.timerIds + 1,
                                render |-> c ]) ]

\* performMix from "const currentMixId = ++mixCountRef.current" to the
\* setTimeout of 50 ms; setIsMixing does nothing once unmounted
PerformStart(comp, ts, c) ==
  [ component |-> [comp EXCEPT !.mixCountRef = comp.mixCountRef + 1,
                               !.cancelRef = FALSE,
                               !.isMixing = comp.mounted,
                               !.timerIds = comp.timerIds + 1],
    timers    |-> Append(ts, [ kind |-> "mix", id |-> comp.timerIds + 1, render |-> c ]) ]

\* performMix of the render c, up to its first await
PerformBegin(comp, ts, c) ==
  IF c.isMixing
  THEN [ component |-> [comp EXCEPT !.cancelRef = TRUE, !.timerIds = comp.timerIds + 1],
         timers    |-> Append(ts, [ kind |-> "wait", id |-> comp.timerIds + 1, render |-> c ]) ]
  ELSE PerformStart(comp, ts, c)

\* the callback of the 50 ms timer, then setIsMixing(false)
PerformEnd(comp, c) ==
  [comp EXCEPT !.onMixCalls = IF comp.cancelRef THEN @ ELSE Append(@, OnMixArgs(c)),
               !.isMixing = FALSE]

\* the component after its first render and effects
MountedComponent ==
  [ mounted |-> TRUE, isMixing |-> FALSE, cancelRef |-> FALSE, debounceTimerRef |-> 0,
    mixCountRef |-> 0, timerIds |-> 0, onMixCalls |-> <<>>, bursts |-> <<>>,
    burst |-> TRUE ]

ComponentProcessors == {[v \in Viewports |-> NoProcessor],
                        [v \in Viewports |-> IF v = 1 THEN ProcessorWithFFT(1) ELSE NoProcessor]}

InitComponent ==
  /\ loadedImages \in ComponentProcessors
  /\ targetSize = NullSize
  /\ sourceImage = [v \in Viewports |-> NullData]
  /\ weights = [v \in Viewports |-> Norm(25, 100)]
  /\ mixMode = MagnitudePhase
  /\ regionConfig = RegionConfig(FALSE, "inner", 50)
  /\ selectedOutput = 1
  /\ outputData1 = NoReturn
  /\ outputData2 = NoReturn
  /\ gestures = 0
  /\ viewportProcessor = [v \in Viewports |-> NewImageProcessor(v)]
  /\ component = DebounceEffect(MountedComponent, <<>>,
                   ComponentRender(weights, mixMode, regionConfig, FALSE)).component
  /\ timers = DebounceEffect(MountedComponent, <<>>,
                ComponentRender(weights, mixMode, regionConfig, FALSE)).timers
  /\ mixer = NewFourierMixer
  /\ call = Called("mount", <<>>)
  /\ ret = NoReturn

\* the parent re-renders the component with new settings; the effect runs
SettingsChanged(op, args, effect) ==
  /\ gestures' = gestures + 1
  /\ component' = effect.component
  /\ timers' = effect.timers
  /\ call' = Called(op, args)
  /\ UNCHANGED <<viewportProcessor, loadedImages, targetSize, sourceImage, selectedOutput, outputData1,
                 outputData2, mixer, ret>>

ChangeWeights ==
  /\ component.mounted
  /\ gestures < MaxChanges
  /\ \E newWeight \in SliderValues :
       /\ newWeight # weights[1]
       /\ weights' = [weights EXCEPT ![1] = newWeight]
       /\ SettingsChanged("weights", <<newWeight>>,
            DebounceEffect([component EXCEPT !.burst = TRUE], timers,
                           ComponentRender(weights', mixMode, regionConfig,
                                           component.isMixing)))
  /\ UNCHANGED <<mixMode, regionConfig>>

ChangeMixMode ==
  /\ component.mounted
  /\ gestures < MaxChanges
  /\ \E mode \in MixModes :
       /\ mode # mixMode
       /\ mixMode' = mode
       /\ SettingsChanged("mixMode", <<mode>>,
            DebounceEffect([component EXCEPT !.burst = TRUE], timers,
                           ComponentRender(weights, mode, regionConfig,
                                           component.isMixing)))
  /\ UNCHANGED <<weights, regionConfig>>

ChangeRegionConfig ==
  /\ component.mounted
  /\ gestures < MaxChanges
  /\ \E config \in ReportedConfigs :
       /\ config # regionConfig
       /\ regionConfig' = config
       /\ SettingsChanged("regionConfig", <<config>>,
            DebounceEffect([component EXCEPT !.burst = TRUE], timers,
                           ComponentRender(weights, mixMode, config,
                                           component.isMixing)))
  /\ UNCHANGED <<weights, mixMode>>

\* a timer callback has run
TimerFired(op, comp, ts) ==
  /\ component' = comp
  /\ timers' = ts
  /\ call' = Called(op, <<>>)
  /\ UNCHANGED <<viewportProcessor, loadedImages, targetSize, sourceImage, weights, mixMode, regionConfig,
                 selectedOutput, outputData1, outputData2, gestures, mixer, ret>>

\* 300 ms have passed since the last change: the burst is over, and the
\* debounce timer, if one is pending, calls performMix
DebounceExpires ==
  /\ \A k \in DOMAIN timers : timers[k].kind = "debounce"
  /\ component.burst \/ timers # <<>>
  /\ LET ended == [component EXCEPT
                     !.burst = FALSE,
                     !.bursts = IF component.burst
                                THEN Append(@, OnMixArgs(ComponentRender(weights, mixMode,
                                                           regionConfig, FALSE)))
                                ELSE @]
     IN  IF timers = <<>> THEN TimerFired("quiet", ended, timers)
         ELSE TimerFired("performMix",
                         PerformBegin(ended, Tail(timers), Head(timers).render).component,
                         PerformBegin(ended, Tail(timers), Head(timers).render).timers)

\* the 50 ms performMix waits for the mix before it have passed
WaitElapses ==
  /\ timers # <<>>
  /\ Head(timers).kind = "wait"
  /\ TimerFired("performMix resumed",
                PerformStart(component, Tail(timers), Head(timers).render).component,
                PerformStart(component, Tail(timers), Head(timers).render).timers)

\* the 50 ms timer of performMix fires
MixTimerFires ==
  /\ timers # <<>>
  /\ Head(timers).kind = "mix"
  /\ TimerFired("mix timer", PerformEnd(component, Head(timers).render), Tail(timers))

\* the cleanups of both effects
Unmount ==
  /\ component.mounted
  /\ TimerFired("unmount",
                [component EXCEPT !.mounted = FALSE, !.cancelRef = TRUE],
                clearTimeout(timers, component.debounceTimerRef))

NextComponent ==
  \/ ChangeWeights
  \/ ChangeMixMode
  \/ ChangeRegionConfig
  \/ DebounceExpires
  \/ WaitElapses
  \/ MixTimerFires
  \/ Unmount

SpecComponent == InitComponent /\ [][NextComponent]_vars

(***************************************************************************)
(* Image loads that overlap.  handleFileChange awaits processor.loadImage, *)
(* so the loads of several viewports are in flight together and complete   *)
(* in any order.  The continuation of a load calls the onImageLoaded it    *)
(* was created with: App.handleImageLoaded of the render in which the file *)
(* was selected, which spreads the loadedImages of that render.            *)
(***************************************************************************)
\* the files a viewport can load here: width, height, grayscale raster
LoadableImages ==
  << <<2, 2, <<1, 2, 3, 4>>>>,
     <<1, 2, <<5, 6>>>>,
     <<2, 1, <<7, 8>>>> >>

LoadFiles == 1..Len(LoadableImages)

\* a load in flight: the viewport, the file, and the viewports registered in
\* the loadedImages that the handler's onImageLoaded closes over
PendingLoad(id, f, loaded) == [ kind |-> "load", id |-> id, file |-> f, loaded |-> loaded ]

\* loadedImages holds references: the registered viewports' processors as
\* they are now
RegisteredProcessors(loaded, live) ==
  [ v \in Viewports |-> IF v \in loaded THEN live[v] ELSE NoProcessor ]

\* App.handleImageLoaded of the render that saw loaded registered
newLoadedImages(loaded, viewportId, live) ==
  RegisteredProcessors(loaded \cup {viewportId}, live)

\* ImageProcessor.hasImage
hasImage(p) == p.grayscaleData # NullData

\* timers without its k-th entry
WithoutTimer(ts, k) == SubSeq(ts, 1, k - 1) \o SubSeq(ts, k + 1, Len(ts))

InitLoads ==
  /\ AppIdle
  /\ mixer = NewFourierMixer
  /\ call = Called("mount", <<>>)
  /\ ret = NoReturn

\* ImageViewport.handleFileChange up to its await
SelectFile ==
  /\ gestures < MaxLoads
  /\ \E id \in Viewports, f \in LoadFiles :
       /\ timers' = Append(timers, PendingLoad(id, f, Render.loaded))
       /\ call' = Called("handleFileChange", <<id, f>>)
  /\ gestures' = gestures + 1
  /\ ret' = NoReturn
  /\ UNCHANGED <<loadedImages, targetSize, sourceImage, viewportProcessor, component,
                 weights, mixMode, regionConfig, selectedOutput, outputData1,
                 outputData2, mixer>>

\* processor.loadImage resolves and handleFileChange continues after its
\* await: onImageLoaded, computeFFT; then every viewport's effect on
\* [targetSize] runs
LoadCompletes ==
  /\ \E k \in 1..Len(timers) :
       /\ timers[k].kind = "load"
       /\ LET id     == timers[k].id
              image  == LoadableImages[timers[k].file]
              live   == [viewportProcessor EXCEPT
                           ![id] = loadImage(viewportProcessor[id],
                                             image[1], image[2], image[3])]
              images == newLoadedImages(timers[k].loaded, id, live)
              size   == updateTargetSize(images)
              sized  == ResizedToTarget(live, size)
          IN  /\ targetSize' = size
              /\ viewportProcessor' = sized
              /\ loadedImages' = newLoadedImages(timers[k].loaded, id, sized)
              /\ sourceImage' =
                   [ v \in Viewports |->
                       IF ~hasImage(live[v]) THEN NullData
                       ELSE NearestNeighbour(IF v = id THEN image[3] ELSE sourceImage[v],
                                             live[v].width, live[v].height,
                                             size.width, size.height) ]
              /\ timers' = WithoutTimer(timers, k) \o <<CallTimer(id)>>
                             \o RecomputeTimers(sized, 1)
              /\ call' = Called("onImageLoaded", <<id, timers[k].file>>)
  /\ ret' = NoReturn
  /\ UNCHANGED <<component, weights, mixMode, regionConfig, selectedOutput, outputData1,
                 outputData2, gestures, mixer>>

\* the callback ImageViewport.computeFFT scheduled; the callbacks fire in the
\* order they were scheduled, whatever loads are in flight
ViewportComputeFFTFires ==
  /\ \E k \in 1..Len(timers) :
       /\ timers[k].kind = "computeFFT"
       /\ \A j \in 1..(k - 1) : timers[j].kind = "load"
       /\ viewportProcessor' = [viewportProcessor EXCEPT
            ![timers[k].id] = computeFFT(viewportProcessor[timers[k].id])]
       /\ loadedImages' = RegisteredProcessors(Render.loaded, viewportProcessor')
       /\ timers' = WithoutTimer(timers, k)
       /\ call' = Called("computeFFT", <<timers[k].id>>)
  /\ ret' = NoReturn
  /\ UNCHANGED <<component, targetSize, sourceImage, weights, mixMode, regionConfig,
                 selectedOutput, outputData1, outputData2, gestures, mixer>>

NextLoads ==
  \/ SelectFile
  \/ LoadCompletes
  \/ ViewportComputeFFTFires

SpecLoads == InitLoads /\ [][NextLoads]_vars

(***************************************************************************)
(* Properties.                                                             *)
(***************************************************************************)
Returned(op) == call.op = op /\ call.returned

\* C1: setWeights stores, for an input with positive sum, each weight divided
\* by the sum, so that the stored weights sum to 1; for an all-zero input of
\* length N it stores 1/N everywhere.
C1_WeightsNormalized ==
  Returned("setWeights") =>
    LET ws  == call.args[1]
        sum == RSum(ws)
    IN  /\ Len(mixer.weights) = Len(ws)
        /\ RLess(Zero, sum) =>
             /\ RSum(mixer.weights) = One
             /\ \A j \in 1..Len(ws) : RMul(mixer.weights[j], sum) = ws[j]
        /\ (Len(ws) > 0 /\ \A j \in 1..Len(ws) : ws[j] = Zero) =>
             \A j \in 1..Len(ws) : mixer.weights[j] = Norm(1, Len(ws))

C1_Witness ==
  /\ Returned("setWeights")
  /\ Len(call.args[1]) = 3
  /\ RLess(Zero, RSum(call.args[1]))
  /\ RLess(call.args[1][1], Zero)
  /\ mixer.weights[2] # mixer.weights[3]

\* the cell i of an interleaved array, as <<re, im>>
CellOf(arr, i) == <<arr[2 * i + 1], arr[2 * i + 2]>>

\* cell i lies outside the region the configuration keeps
OutsideRegion(config, width, height, i) ==
  LET x      == i % width
      y      == i \div width
      inside == /\ Abs(x - (width \div 2)) <= (width * config.size) \div 200
                /\ Abs(y - (height \div 2)) <= (height * config.size) \div 200
  IN  IF config.type = "inner" THEN ~inside ELSE inside

ForcedToZero(m, width, height, i) ==
  /\ ~m.regionConfig.isNull
  /\ m.regionConfig.enabled
  /\ OutsideRegion(m.regionConfig, width, height, i)

MixReturned == Returned("mix") /\ ret.error = ""

GridW == mixer.processors[1].fft.fftWidth

GridH == mixer.processors[1].fft.fftHeight

\* the weight applied to source j (NaN when there is none)
WeightOf(j) == ReadAt(mixer.weights, j - 1)

WeightedSum(i, part) ==
  RSum([ j \in 1..Len(mixer.processors) |->
           RMul(WeightOf(j), CellOf(mixer.processors[j].fft.complexData, i)[part]) ])

\* C3: in real/imaginary mode every cell that is not masked out holds the
\* weighted sum of the sources' real parts and of their imaginary parts; a
\* single source of weight 1 without a mask is returned cell for cell.
C3_RealImaginaryIsWeightedSum ==
  (MixReturned /\ mixer.mixMode = RealImaginary) =>
    /\ Len(ret.mixedComplexData) = 2 * GridW * GridH
    /\ \A i \in 0..(GridW * GridH - 1) :
         ~ForcedToZero(mixer, GridW, GridH, i) =>
           CellOf(ret.mixedComplexData, i) = <<WeightedSum(i, 1), WeightedSum(i, 2)>>
    /\ ( /\ Len(mixer.processors) = 1
         /\ mixer.weights = <<One>>
         /\ (mixer.regionConfig.isNull \/ ~mixer.regionConfig.enabled) ) =>
           ret.mixedComplexData = mixer.processors[1].fft.complexData

C3_Witness ==
  /\ MixReturned
  /\ mixer.mixMode = RealImaginary
  /\ Len(mixer.processors) = 2
  /\ mixer.processors[1] # mixer.processors[2]
  /\ mixer.weights = <<Norm(1, 5), Norm(4, 5)>>
  /\ \E i \in 0..(GridW * GridH - 1) :
       /\ ~ForcedToZero(mixer, GridW, GridH, i)
       /\ CellOf(ret.mixedComplexData, i)[2] # Zero
       /\ CellOf(ret.mixedComplexData, i)[1] # CellOf(ret.mixedComplexData, i)[2]

\* the cell the mix of m holds at i when no mask is applied
UnmaskedCell(m, i) ==
  IF m.mixMode = MagnitudePhase
  THEN CellMagnitudePhase(m, <<>>, i)
  ELSE CellRealImaginary(m, <<>>, i)

\* C4: in both modes a cell is forced to (0,0) exactly when region filtering
\* is enabled and the region excludes the cell; every other cell holds the
\* value the mix gives it without a mask.
C4_ZeroedIffMaskedOut ==
  MixReturned =>
    \A i \in 0..(GridW * GridH - 1) :
      IF ForcedToZero(mixer, GridW, GridH, i)
      THEN CellOf(ret.mixedComplexData, i) = <<Zero, Zero>>
      ELSE CellOf(ret.mixedComplexData, i) = UnmaskedCell(mixer, i)

C4_Witness ==
  /\ MixReturned
  /\ mixer.mixMode = MagnitudePhase
  /\ ~mixer.regionConfig.isNull
  /\ mixer.regionConfig.enabled
  /\ \E i, k \in 0..(GridW * GridH - 1) :
       /\ ForcedToZero(mixer, GridW, GridH, i)
       /\ UnmaskedCell(mixer, i) # <<Zero, Zero>>
       /\ ~ForcedToZero(mixer, GridW, GridH, k)
       /\ CellOf(ret.mixedComplexData, k) # <<Zero, Zero>>

MaskReturned == Returned("createRegionMask")

MaskW == call.args[1]

MaskH == call.args[2]

\* C5: the mask has width * height entries, and the entry of cell (x, y) is 1
\* exactly when the cell is within the half extents of the centre (inner), or
\* exactly when it is not (outer).
C5_MaskIsCentredRectangle ==
  MaskReturned =>
    LET centerX == MaskW \div 2
        centerY == MaskH \div 2
        halfW   == (MaskW * mixer.regionConfig.size) \div 200
        halfH   == (MaskH * mixer.regionConfig.size) \div 200
    IN  /\ Len(ret) = MaskW * MaskH
        /\ \A x \in 0..(MaskW - 1), y \in 0..(MaskH - 1) :
             LET insideRect == Abs(x - centerX) <= halfW /\ Abs(y - centerY) <= halfH
             IN  (ret[y * MaskW + x + 1] = 1) <=>
                   (IF mixer.regionConfig.type = "inner" THEN insideRect ELSE ~insideRect)
        /\ \A k \in 1..Len(ret) : ret[k] \in {0, 1}

C5_Witness ==
  /\ MaskReturned
  /\ MaskW # MaskH
  /\ mixer.regionConfig.type = "inner"
  /\ \E j, k \in 1..Len(ret) : ret[j] = 1 /\ ret[k] = 0
  /\ (MaskW * mixer.regionConfig.size) \div 200 # (MaskH * mixer.regionConfig.size) \div 200

OtherType(config) ==
  [config EXCEPT !.type = IF config.type = "inner" THEN "outer" ELSE "inner"]

\* C6: the inner and the outer mask of the same size on the same grid are
\* complements: every cell is in exactly one of them.
C6_InnerOuterComplement ==
  MaskReturned =>
    LET other == createRegionMask(MaskW, MaskH, OtherType(mixer.regionConfig))
    IN  /\ Len(other) = Len(ret)
        /\ \A k \in 1..Len(ret) : ret[k] + other[k] = 1

C6_Witness ==
  /\ MaskReturned
  /\ mixer.regionConfig.type = "outer"
  /\ \E j, k \in 1..Len(ret) : ret[j] = 1 /\ ret[k] = 0

FullInner(m) ==
  /\ ~m.regionConfig.isNull
  /\ m.regionConfig.enabled
  /\ m.regionConfig.type = "inner"
  /\ m.regionConfig.size = 100

\* C7: the inner mask of size 100 includes every cell of a power-of-two grid,
\* and a mix with it enabled equals the mix with region filtering disabled.
C7_FullInnerIsNoMask ==
  /\ (MaskReturned /\ FullInner(mixer)) => \A k \in 1..Len(ret) : ret[k] = 1
  /\ (MixReturned /\ FullInner(mixer)) =>
       ret = mix(setRegionConfig(mixer, RegionConfig(FALSE, "inner", 100)))

C7_Witness ==
  /\ MixReturned
  /\ FullInner(mixer)
  /\ Len(mixer.processors) = 2
  /\ \E i \in 0..(GridW * GridH - 1) : CellOf(ret.mixedComplexData, i)[2] # Zero

\* C8 as stated: size 0 gives an inner mask without any cell and an outer
\* mask with every cell.
C8_SizeZeroEmptyInner ==
  (MaskReturned /\ mixer.regionConfig.size = 0) =>
    \A k \in 1..Len(ret) : ret[k] = (IF mixer.regionConfig.type = "inner" THEN 0 ELSE 1)

\* C8 amended: size 0 gives an inner mask that holds the centre cell
\* (floor(width/2), floor(height/2)) and no other, and an outer mask that
\* holds every cell but the centre.
C8_SizeZeroCentreOnly ==
  (MaskReturned /\ mixer.regionConfig.size = 0) =>
    \A x \in 0..(MaskW - 1), y \in 0..(MaskH - 1) :
      LET centre == x = MaskW \div 2 /\ y = MaskH \div 2
      IN  ret[y * MaskW + x + 1] =
            (IF (mixer.regionConfig.type = "inner") <=> centre THEN 1 ELSE 0)

C8_Witness ==
  /\ MaskReturned
  /\ mixer.regionConfig.size = 0
  /\ mixer.regionConfig.type = "inner"
  /\ MaskW * MaskH > 4
  /\ Cardinality({k \in 1..Len(ret) : ret[k] = 1}) = 1

SmallestPowerOf2AtLeast(r, n) ==
  /\ IsPowerOf2(r)
  /\ r >= n
  /\ \A q \in 1..r : (IsPowerOf2(q) /\ q >= n) => r <= q

\* C9 as stated: for every n >= 1 the FFT dimension is the smallest power of
\* two that is at least n.
C9_SmallestPowerOfTwo ==
  /\ (Returned("nextPowerOf2") /\ call.args[1] >= 1) =>
       SmallestPowerOf2AtLeast(ret, call.args[1])
  /\ (Returned("FourierTransform") /\ call.args[1] >= 1 /\ call.args[2] >= 1) =>
       /\ SmallestPowerOf2AtLeast(ret.fftWidth, call.args[1])
       /\ SmallestPowerOf2AtLeast(ret.fftHeight, call.args[2])

\* C9 amended: for every n >= 2 the FFT dimension is the smallest power of two
\* that is at least n; for n = 1 it is 2, the smallest size the transform takes.
C9_SmallestPowerOfTwoFromTwo ==
  /\ (Returned("nextPowerOf2") /\ call.args[1] >= 1) =>
       IF call.args[1] = 1 THEN ret = 2 ELSE SmallestPowerOf2AtLeast(ret, call.args[1])
  /\ (Returned("FourierTransform") /\ call.args[1] >= 1 /\ call.args[2] >= 1) =>
       /\ IF call.args[1] = 1 THEN ret.fftWidth = 2
          ELSE SmallestPowerOf2AtLeast(ret.fftWidth, call.args[1])
       /\ IF call.args[2] = 1 THEN ret.fftHeight = 2
          ELSE SmallestPowerOf2AtLeast(ret.fftHeight, call.args[2])
       /\ ret.fftSize = ret.fftWidth * ret.fftHeight

C9_Witness ==
  /\ Returned("nextPowerOf2")
  /\ call.args[1] = 256
  /\ ret = 256

\* how many cells of the array hold the complex value v
CountOf(arr, cells, v) == Cardinality({i \in 0..(cells - 1) : CellOf(arr, i) = v})

\* C10: fftShiftComplex moves the value at (x, y) to ((x + width/2) mod width,
\* (y + height/2) mod height), keeps every value as often as it occurred, and
\* puts the value of (0, 0) at (width/2, height/2).
C10_ShiftMovesByHalf ==
  Returned("fftShiftComplex") =>
    LET data   == call.args[1]
        width  == call.args[2]
        height == call.args[3]
        cells  == width * height
    IN  /\ Len(ret) = Len(data)
        /\ \A x \in 0..(width - 1), y \in 0..(height - 1) :
             CellOf(ret, ((y + height \div 2) % height) * width + ((x + width \div 2) % width))
               = CellOf(data, y * width + x)
        /\ \A i \in 0..(cells - 1) :
             CountOf(ret, cells, CellOf(data, i)) = CountOf(data, cells, CellOf(data, i))
        /\ CellOf(ret, (height \div 2) * width + (width \div 2)) = CellOf(data, 0)

C10_Witness ==
  /\ Returned("fftShiftComplex")
  /\ call.args[2] # call.args[3]
  /\ call.args[3] > 2
  /\ \A i, k \in 0..(call.args[2] * call.args[3] - 1) :
       i # k => CellOf(call.args[1], i) # CellOf(call.args[1], k)
  /\ ret # call.args[1]

\* the handlers that end with an autoMix
AutoMixOps ==
  {"handleWeightChange", "setMixMode", "setSelectedOutput", "handleRegionConfigChange",
   "autoMix"}

\* an autoMix has just mixed
AutoMixed == call.op \in AutoMixOps /\ ret # NoReturn

\* the sliders the autoMix saw
SlidersSeen == IF call.op = "autoMix" THEN call.args[1].weights ELSE weights

\* C2: after an autoMix, the weights applied to the mixed images sum to 1 and
\* stand to each other as the sliders of the viewports the images belong to:
\* the weight of the image of viewport k is slider k divided by the sum of the
\* sliders of the mixed viewports (1/n each when these are all zero).
C2_WeightsFollowViewports ==
  AutoMixed =>
    LET n       == Len(mixer.processors)
        applied == [ j \in 1..n |-> WeightOf(j) ]
        slider  == [ j \in 1..n |-> SlidersSeen[mixer.processors[j].id] ]
    IN  /\ RSum(applied) = One
        /\ IF RSum(slider) = Zero
           THEN \A j \in 1..n : applied[j] = Norm(1, n)
           ELSE \A j \in 1..n : RMul(applied[j], RSum(slider)) = slider[j]

\* C11: on a grid of even width and height, ifftShift applied to the output
\* of fftShiftComplex gives back the array that was shifted, so the value the
\* forward shift put at (width/2, height/2) is at index (0,0) again.
C11_ShiftIsOwnInverse ==
  Returned("ifftShift") =>
    LET shifted == call.args[1]
        width   == call.args[2]
        height  == call.args[3]
    IN  /\ Len(ret) = Len(shifted)
        /\ fftShiftComplex(ret, width, height) = shifted
        /\ \A x \in 0..(width - 1), y \in 0..(height - 1) :
             CellOf(ret, y * width + x) =
               CellOf(shifted, ((y + height \div 2) % height) * width + ((x + width \div 2) % width))
        /\ CellOf(ret, 0) = CellOf(shifted, (height \div 2) * width + (width \div 2))

C11_Witness ==
  /\ Returned("ifftShift")
  /\ call.args[2] # call.args[3]
  /\ call.args[3] > 2
  /\ ret # call.args[1]
  /\ \A i, k \in 0..(call.args[2] * call.args[3] - 1) :
       i # k => CellOf(ret, i) # CellOf(ret, k)

\* the inverse transform of the mixed spectrum, as performIFFT computes it
InverseOfMix == ret.complexResult

\* the real component of the inverse-transform cell under output pixel (x, y)
RealUnder(x, y) == CellOf(InverseOfMix, y * GridW + x)[1]

OutW == mixer.processors[1].width

OutH == mixer.processors[1].height

OutPixels == (0..(OutW - 1)) \X (0..(OutH - 1))

\* v is the least (the greatest) of the real components under the output
IsLeastUnder(v) ==
  /\ \E q \in OutPixels : RealUnder(q[1], q[2]) = v
  /\ \A q \in OutPixels : ~RLess(RealUnder(q[1], q[2]), v)

IsGreatestUnder(v) ==
  /\ \E q \in OutPixels : RealUnder(q[1], q[2]) = v
  /\ \A q \in OutPixels : ~RLess(v, RealUnder(q[1], q[2]))

\* the gray level of the value v between lo and hi: 255 * (v - lo) / (hi - lo),
\* rounded half up
GrayBetween(v, lo, hi) ==
  LET num == (v[1] * lo[2] - lo[1] * v[2]) * hi[2] * 255
      den == (hi[1] * lo[2] - lo[1] * hi[2]) * v[2]
  IN  (2 * num + den) \div (2 * den)

\* C12: mix() returns width * height samples with the width and height of the
\* sources; pixel (x, y) is the gray level of the real component of
\* inverse-transform cell y * fftWidth + x between the least and the greatest
\* of these components, and no imaginary component changes the raster.
C12_OutputIsTopLeftCrop ==
  MixReturned =>
    /\ Len(ret.imageData) = OutW * OutH
    /\ ret.width = OutW /\ ret.height = OutH
    /\ \A j \in 1..Len(mixer.processors) :
         mixer.processors[j].width = ret.width /\ mixer.processors[j].height = ret.height
    /\ \A lo, hi \in {RealUnder(q[1], q[2]) : q \in OutPixels} :
         (IsLeastUnder(lo) /\ IsGreatestUnder(hi) /\ lo # hi) =>
           \A q \in OutPixels :
             ret.imageData[q[2] * OutW + q[1] + 1] = GrayBetween(RealUnder(q[1], q[2]), lo, hi)
    /\ ret.imageData =
         complexToGrayscale([ k \in 1..Len(InverseOfMix) |->
                                IF k % 2 = 0 THEN One ELSE InverseOfMix[k] ],
                            GridW, GridH, OutW, OutH)

C12_Witness ==
  /\ MixReturned
  /\ OutW < GridW
  /\ Cardinality({ret.imageData[k] : k \in 1..Len(ret.imageData)}) >= 3
  /\ \E q \in OutPixels : RealUnder(q[1], q[2]) # CellOf(InverseOfMix, q[2] * OutW + q[1])[1]

\* the real value complexToGrayscale was handed for output pixel k (from 0)
GrayIn(k) ==
  CellOf(call.args[1], (k \div call.args[4]) * call.args[2] + (k % call.args[4]))[1]

GrayCount == call.args[4] * call.args[5]

\* the handed values under the output are numbers and not all equal
GrayRangeUsable ==
  /\ \A k \in 0..(GrayCount - 1) : ~IsNaN(GrayIn(k))
  /\ \E i, k \in 0..(GrayCount - 1) : GrayIn(i) # GrayIn(k)

\* C13: with a usable range complexToGrayscale yields pixels in 0..255, the
\* least value becomes 0, the greatest 255, and a value that is not greater
\* than another gets a pixel that is not greater.
C13_GrayscaleNormalized ==
  (Returned("complexToGrayscale") /\ GrayRangeUsable) =>
    /\ Len(ret) = GrayCount
    /\ \A k \in 0..(GrayCount - 1) :
         /\ ret[k + 1] \in 0..255
         /\ (\A i \in 0..(GrayCount - 1) : ~RLess(GrayIn(i), GrayIn(k))) => ret[k + 1] = 0
         /\ (\A i \in 0..(GrayCount - 1) : ~RLess(GrayIn(k), GrayIn(i))) => ret[k + 1] = 255
         /\ \A i \in 0..(GrayCount - 1) :
              ~RLess(GrayIn(k), GrayIn(i)) => ret[i + 1] <= ret[k + 1]

C13_Witness ==
  /\ Returned("complexToGrayscale")
  /\ GrayRangeUsable
  /\ call.args[4] < call.args[2]
  /\ \E k \in 0..(GrayCount - 1) : RLess(GrayIn(k), Zero)
                                  \/ (ret[k + 1] # 0 /\ ret[k + 1] # 255)

\* the range complexToGrayscale finds is zero or not a number: the real
\* components under the output are all NaN or all equal
DegenerateRange ==
  \/ \A q \in OutPixels : IsNaN(RealUnder(q[1], q[2]))
  \/ \A p, q \in OutPixels : RealUnder(p[1], p[2]) = RealUnder(q[1], q[2])

\* C14: when the range of the inverse-transformed values is zero or not
\* finite, mix() returns a raster of width * height pixels that are all 128.
C14_DegenerateIsMidGray ==
  (MixReturned /\ DegenerateRange) =>
    /\ Len(ret.imageData) = OutW * OutH
    /\ \A k \in 1..Len(ret.imageData) : ret.imageData[k] = 128

C14_Witness ==
  /\ MixReturned
  /\ DegenerateRange
  /\ ~IsNaN(RealUnder(0, 0))
  /\ \E i \in 0..(GridW * GridH - 1) : CellOf(mixer.processors[1].fft.complexData, i) # <<Zero, Zero>>
  /\ \A k \in 1..Len(ret.imageData) : ret.imageData[k] = 128

\* the number of processors among the first n of ps that hold a spectrum
RECURSIVE WithSpectrum(_, _)
WithSpectrum(ps, n) ==
  IF n = 0 THEN 0
  ELSE WithSpectrum(ps, n - 1) + (IF ~ps[n].isNull /\ FThasFFT(ps[n].fft) THEN 1 ELSE 0)

\* C15: setProcessors keeps, in order, exactly the processors that hold a
\* spectrum; mix() on a mixer without any fails with NoSources and yields no
\* output; canMix is true exactly when mix() does not fail with NoSources.
C15_NoSourcesIffCannotMix ==
  /\ Returned("setProcessors") =>
       LET ps == call.args[1]
       IN  /\ Len(mixer.processors) = WithSpectrum(ps, Len(ps))
           /\ \A n \in 1..Len(ps) :
                (~ps[n].isNull /\ FThasFFT(ps[n].fft)) =>
                  mixer.processors[WithSpectrum(ps, n)] = ps[n]
  /\ Returned("mix") =>
       /\ (Len(mixer.processors) = 0) <=> (ret.error = NoSources)
       /\ canMix(mixer) <=> (ret.error # NoSources)
       /\ ret.error = NoSources => ret.imageData = <<>> /\ ret.mixedComplexData = <<>>

C15_Witness ==
  /\ Returned("mix")
  /\ ret.error = NoSources
  /\ ~canMix(mixer)

C17_EmptyRasterRejected ==
  (Returned("compute2DFFT") /\ (call.args[1] = 0 \/ call.args[2] = 0)) =>
    /\ ret.error = InvalidInput
    /\ ~FThasFFT(ret.fft)

\* C16: mix() fails with DimensionMismatch whenever a source differs from the
\* first in width or height; whenever it does not fail, all sources have the
\* fftWidth and fftHeight of the first, so that every cell below
\* fftWidth * fftHeight lies within the buffer of every source.
C16_SourcesShareGrid ==
  AutoMixed =>
    /\ (\E j \in 1..Len(mixer.processors) :
          \/ mixer.processors[j].width # mixer.processors[1].width
          \/ mixer.processors[j].height # mixer.processors[1].height)
         => ret.error = DimensionMismatch
    /\ ret.error = "" =>
         \A j \in 1..Len(mixer.processors) :
           /\ mixer.processors[j].fft.fftWidth = GridW
           /\ mixer.processors[j].fft.fftHeight = GridH
           /\ 2 * GridW * GridH <= Len(mixer.processors[j].fft.complexData)

\* C20: whenever mix() runs, every source holds the spectrum of its current
\* image: the width and height its transform was made for are the width and
\* height of the processor.
C20_NoStaleSpectrumMixed ==
  AutoMixed =>
    \A j \in 1..Len(mixer.processors) :
      /\ mixer.processors[j].fft.width = mixer.processors[j].width
      /\ mixer.processors[j].fft.height = mixer.processors[j].height

\* C18: whatever loadImage, brightness/contrast, reset and resize operations
\* came before, the raster computeFFT hands to the forward transform is the
\* loaded image at its current size, without any adjustment.
C18_TransformOfUnadjusted ==
  Returned("processor.computeFFT") => call.args[1] = sourceImage[1]


\* the number the loop body stores for source pixel p, before the store into
\* the Uint8ClampedArray rounds it
ClampedFormula(p) ==
  Clamp255(RAdd(RAdd(RMul(ContrastFactor(call.args[3]), R(p - 128)), R(128)), call.args[2]))

AdjustReturned == Returned("applyBrightnessContrast") \/ Returned("applyAdjustments")

AdjustedRaster == AdjustReturned /\ call.args[1] # NullData

\* v is the integer nearest to q, the even one when two are equally near
NearestInteger(v, q) ==
  LET twice == RMul(R(2), RSub(R(v), q))
  IN  /\ ~RLess(One, twice)
      /\ ~RLess(twice, R(-1))
      /\ (twice = One \/ twice = R(-1)) => v % 2 = 0

\* C21: applyBrightnessContrast (and the viewport's applyAdjustments) returns
\* a new raster of the input's length and leaves the input as it was; every
\* output pixel is an integer of 0..255, the nearest one to
\* clamp(contrastFactor * (p - 128) + 128 + brightness, 0, 255); with
\* brightness 0 and contrast 0 the output equals the input.
C21_AdjustIsPureClampedRounded ==
  AdjustReturned =>
    /\ ret.input = call.args[1]
    /\ call.args[1] = NullData => ret.adjusted = NullData
    /\ call.args[1] # NullData =>
         /\ Len(ret.adjusted) = Len(call.args[1])
         /\ \A i \in 1..Len(call.args[1]) :
              /\ ret.adjusted[i] \in 0..255
              /\ NearestInteger(ret.adjusted[i], ClampedFormula(call.args[1][i]))
         /\ (call.args[2] = Zero /\ call.args[3] = Zero) => ret.adjusted = call.args[1]

\* C21 as stated: every output pixel is the clamped formula itself
C21_AdjustIsPureClamped ==
  AdjustedRaster =>
    /\ ret.input = call.args[1]
    /\ \A i \in 1..Len(call.args[1]) : R(ret.adjusted[i]) = ClampedFormula(call.args[1][i])
    /\ (call.args[2] = Zero /\ call.args[3] = Zero) => ret.adjusted = call.args[1]

\* a raster was adjusted with a contrast other than 0: one pixel was clamped
\* at 255 and another was stored as a value that differs from its source
C21_Witness ==
  /\ Returned("applyBrightnessContrast")
  /\ call.args[1] # NullData
  /\ call.args[3] # Zero
  /\ \E i, j \in 1..Len(call.args[1]) :
       /\ ret.adjusted[i] = 255 /\ call.args[1][i] < 255
       /\ ret.adjusted[j] \in 1..254 /\ ret.adjusted[j] # call.args[1][j]


\* the weighted sum over the source/weight pairs that exist at matching positions
PairedSum(i, part) ==
  RSum([ j \in 1..(IF Len(mixer.weights) < Len(mixer.processors)
                   THEN Len(mixer.weights) ELSE Len(mixer.processors)) |->
           RMul(mixer.weights[j], CellOf(mixer.processors[j].fft.complexData, i)[part]) ])

\* C22: with a weight count that differs from the source count mix() does
\* not fail, returns a raster of width * height pixels, and (in
\* real/imaginary mode, where the combination is a plain sum) every cell
\* that is not masked out combines the source/weight pairs at matching
\* positions only.
C22_MismatchMixesMatchingPairs ==
  ( /\ Returned("mix")
    /\ Len(mixer.processors) > 0
    /\ Len(mixer.weights) # Len(mixer.processors)
    /\ \A j \in 1..Len(mixer.processors) :
         /\ mixer.processors[j].width = mixer.processors[1].width
         /\ mixer.processors[j].height = mixer.processors[1].height ) =>
    /\ ret.error = ""
    /\ Len(ret.imageData) = ret.width * ret.height
    /\ mixer.mixMode = RealImaginary =>
         \A i \in 0..(GridW * GridH - 1) :
           ~ForcedToZero(mixer, GridW, GridH, i) =>
             CellOf(ret.mixedComplexData, i) = <<PairedSum(i, 1), PairedSum(i, 2)>>


\* mix() of a single source with weight 1 and no region mask has returned
SingleSourceMixed ==
  /\ MixReturned
  /\ Len(mixer.processors) = 1
  /\ Len(mixer.weights) >= 1 /\ mixer.weights[1] = One
  /\ (mixer.regionConfig.isNull \/ ~mixer.regionConfig.enabled)

\* the raster the source's spectrum was computed from
SourceRaster == mixer.processors[1].grayscaleData

\* C23: for a single source with weight 1 and no region mask, the inverse
\* transform holds under every output pixel the source pixel itself, with no
\* imaginary part (pad, transform, shift, inverse shift, inverse transform and
\* crop compose to the identity), and the raster mix() returns preserves the
\* order of the source pixels.
C23_RoundTripPreservesOrder ==
  SingleSourceMixed =>
    /\ Len(ret.imageData) = Len(SourceRaster)
    /\ \A q \in OutPixels :
         CellOf(InverseOfMix, q[2] * GridW + q[1]) = <<R(SourceRaster[q[2] * OutW + q[1] + 1]), Zero>>
    /\ \A a, b \in 1..Len(SourceRaster) :
         SourceRaster[a] <= SourceRaster[b] => ret.imageData[a] <= ret.imageData[b]

\* a 3x2 source, padded to 4x2, went through the round trip and came back
\* with three or more gray levels
C23_Witness ==
  /\ SingleSourceMixed
  /\ OutW = 3 /\ GridW = 4
  /\ Cardinality({SourceRaster[k] : k \in 1..Len(SourceRaster)}) >= 3
  /\ Cardinality({ret.imageData[k] : k \in 1..Len(ret.imageData)}) >= 3
  /\ ret.imageData # SourceRaster


\* the magnitude of source j in cell i, and its unit vector (that of phase 0
\* for a cell that is zero)
MagnitudeOf(j, i) ==
  RSqrt(Hypot2(CellOf(mixer.processors[j].fft.complexData, i)[1],
               CellOf(mixer.processors[j].fft.complexData, i)[2]))

UnitOf(j, i, part) ==
  IF MagnitudeOf(j, i) = Zero THEN (IF part = 1 THEN One ELSE Zero)
  ELSE RDiv(CellOf(mixer.processors[j].fft.complexData, i)[part], MagnitudeOf(j, i))

\* the sources that count: those whose weight is not 0
Weighted == {j \in 1..Len(mixer.processors) : mixer.weights[j] # Zero}

RECURSIVE SumOver(_, _, _)
SumOver(J, i, part) ==
  IF J = {} THEN Zero
  ELSE LET j == CHOOSE k \in J : TRUE
       IN  RAdd(SumOver(J \ {j}, i, part),
                RMul(mixer.weights[j], IF part = 0 THEN MagnitudeOf(j, i) ELSE UnitOf(j, i, part)))

\* the mixer without the sources of weight 0
WithoutZeroWeights ==
  [mixer EXCEPT !.processors = [ k \in 1..Cardinality(Weighted) |->
                                   mixer.processors[CHOOSE j \in Weighted :
                                     Cardinality({h \in Weighted : h < j}) = k - 1] ],
                !.weights = [ k \in 1..Cardinality(Weighted) |->
                                mixer.weights[CHOOSE j \in Weighted :
                                  Cardinality({h \in Weighted : h < j}) = k - 1] ]]

\* C24: in magnitude/phase mode a cell that is not masked out has as its
\* magnitude the weighted sum of the sources' magnitudes and points along the
\* weighted sum of their unit vectors (its phase is atan2 of the sine sum and
\* the cosine sum), so that two sources of equal weight with phases +t and -t
\* beyond 90 degrees give a cell on the negative real axis (phase 180
\* degrees, not 0); sources of weight 0 change nothing.
C24_PhaseIsCircularMean ==
  Returned("mixMagnitudePhase") =>
    /\ \A i \in 0..(call.args[1] * call.args[2] - 1) :
         ~ForcedToZero(mixer, call.args[1], call.args[2], i) =>
           LET out    == CellOf(ret, i)
               mag    == SumOver(Weighted, i, 0)
               sumCos == SumOver(Weighted, i, 1)
               sumSin == SumOver(Weighted, i, 2)
           IN  /\ Hypot2(out[1], out[2]) = RMul(mag, mag)
               /\ RMul(out[1], sumSin) = RMul(out[2], sumCos)
               /\ ~RLess(RAdd(RMul(out[1], sumCos), RMul(out[2], sumSin)), Zero)
               /\ (sumSin = Zero /\ RLess(sumCos, Zero)) => out = <<RNeg(mag), Zero>>
    /\ Weighted # {} => ret = mixMagnitudePhase(WithoutZeroWeights, call.args[1], call.args[2])

\* two sources of equal weight whose phases in one cell are +t and -t beyond
\* 90 degrees were mixed: the cell came out on the negative real axis
C24_Witness ==
  /\ Returned("mixMagnitudePhase")
  /\ Len(mixer.processors) = 2
  /\ mixer.weights = <<Norm(1, 2), Norm(1, 2)>>
  /\ \E i \in 0..(call.args[1] * call.args[2] - 1) :
       /\ ~ForcedToZero(mixer, call.args[1], call.args[2], i)
       /\ RLess(CellOf(mixer.processors[1].fft.complexData, i)[1], Zero)
       /\ RLess(Zero, CellOf(mixer.processors[1].fft.complexData, i)[2])
       /\ CellOf(mixer.processors[2].fft.complexData, i)
            = <<CellOf(mixer.processors[1].fft.complexData, i)[1],
                RNeg(CellOf(mixer.processors[1].fft.complexData, i)[2])>>
       /\ RLess(CellOf(ret, i)[1], Zero)
       /\ CellOf(ret, i)[2] = Zero


\* the result held by the selected port
SelectedPortOutput == IF selectedOutput = 1 THEN outputData1 ELSE outputData2

\* what mix() returns for the current weights, mode, region configuration and
\* processors
LatestMix == mix(AutoMixer(Render, loadedImages))

\* C25: when a settings change (weight, mix mode, region configuration,
\* selected port) and every callback scheduled so far have run, the selected
\* port holds the raster mixed with the latest weights, mode and region
\* configuration.
C25_OutputFollowsLatestSettings ==
  ( /\ call.op \in AutoMixOps
    /\ timers = <<>>
    /\ \E v \in Viewports : hasFFT(loadedImages[v]) ) =>
    ( LatestMix.error = "" =>
        /\ SelectedPortOutput # NoReturn
        /\ SelectedPortOutput.imageData = LatestMix.imageData )


DebouncePending == {k \in DOMAIN timers : timers[k].kind = "debounce"}

MixInFlight == {k \in DOMAIN timers : timers[k].kind # "debounce"}

\* one onMix per burst that has ended, with the settings at its end, the
\* mix of the last burst possibly still under way
OnePerBurst ==
  /\ Cardinality(DebouncePending) <= 1
  /\ Len(component.onMixCalls) + Cardinality(MixInFlight) = Len(component.bursts)
  /\ \A k \in 1..Len(component.onMixCalls) : component.onMixCalls[k] = component.bursts[k]

\* C26: while the component is mounted with at least one processor that has
\* FFT data, at most one debounce timer is pending, and every burst of
\* setting changes that has ended has led to exactly one onMix, after its
\* last change and with the settings of that change.
C26_OneMixPerBurstWhenCanMix ==
  (component.mounted /\ ComponentCanMix) => OnePerBurst

\* C26 as stated, for every mounted component
C26_OneMixPerBurst ==
  component.mounted => OnePerBurst

\* three changes were made, two bursts have ended, and each burst led to one
\* onMix with its own settings
C26_Witness ==
  /\ component.mounted
  /\ Len(component.onMixCalls) = 2
  /\ component.onMixCalls = component.bursts
  /\ component.onMixCalls[1] # component.onMixCalls[2]
  /\ component.mixCountRef = 2
  /\ gestures = 3

\* C27: once the component is unmounted, no step adds a call of onMix.
C27_NoMixAfterUnmount ==
  [][~component.mounted => component'.onMixCalls = component.onMixCalls]_vars


AdjustOps == {"adjustBrightness", "adjustContrast", "setBrightnessContrast"}

\* the raster is the formula applied once to the original
AdjustedOnce(p) ==
  p.originalGrayscale # NullData =>
    /\ Len(p.grayscaleData) = Len(p.originalGrayscale)
    /\ \A k \in 1..Len(p.originalGrayscale) :
         p.grayscaleData[k] = AdjustedPixel(p.originalGrayscale[k], R(p.brightness), R(p.contrast))

\* C28: every adjustBrightness, adjustContrast and setBrightnessContrast
\* leaves originalGrayscale as it was, brightness and contrast within
\* -100..100 and grayscaleData equal to the formula applied once to
\* originalGrayscale with the brightness and contrast it has set;
\* resetAdjustments leaves brightness = contrast = 0 and grayscaleData equal to
\* originalGrayscale.
C28_AdjustmentsNotCumulative ==
  [][ /\ call'.op \in AdjustOps =>
           /\ loadedImages'[1].originalGrayscale = loadedImages[1].originalGrayscale
           /\ loadedImages'[1].brightness \in (-100)..100
           /\ loadedImages'[1].contrast \in (-100)..100
           /\ AdjustedOnce(loadedImages'[1])
      /\ call'.op = "resetAdjustments" =>
           /\ loadedImages'[1].originalGrayscale = loadedImages[1].originalGrayscale
           /\ loadedImages'[1].brightness = 0
           /\ loadedImages'[1].contrast = 0
           /\ loadedImages[1].originalGrayscale # NullData =>
                loadedImages'[1].grayscaleData = loadedImages[1].originalGrayscale ]_vars

\* adjustBrightness(50) has brought the brightness back to 0 from -50, where
\* every pixel of the raster was clamped to 0, and the raster is the original
\* again
C28_Witness ==
  /\ Returned("adjustBrightness")
  /\ call.args = <<50>>
  /\ loadedImages[1].brightness = 0
  /\ loadedImages[1].contrast = 0
  /\ loadedImages[1].originalGrayscale # NullData
  /\ loadedImages[1].grayscaleData = loadedImages[1].originalGrayscale
  /\ \E k \in 1..Len(loadedImages[1].originalGrayscale) :
       loadedImages[1].originalGrayscale[k] \in 1..49


\* C29: when a load has been handled and the resize effects have run,
\* targetSize is the least width and the least height of the processors in
\* loadedImages, taken as they were when the load was handled (the processor
\* just loaded at the size of its file), every processor that holds an image
\* has the width and the height of targetSize and a raster of that many
\* pixels, and so the processors handed to one mix() share their dimensions.
LoadHandled(id, f) ==
  LET loaded == {v \in Viewports : ~loadedImages'[v].isNull}
      widthBefore(v)  == IF v = id THEN LoadableImages[f][1] ELSE viewportProcessor[v].width
      heightBefore(v) == IF v = id THEN LoadableImages[f][2] ELSE viewportProcessor[v].height
  IN  /\ id \in loaded
      /\ \A v \in loaded : /\ targetSize'.width <= widthBefore(v)
                           /\ targetSize'.height <= heightBefore(v)
      /\ \E v \in loaded : targetSize'.width = widthBefore(v)
      /\ \E v \in loaded : targetSize'.height = heightBefore(v)

SizedToTarget(p) ==
  /\ p.width = targetSize'.width
  /\ p.height = targetSize'.height
  /\ Len(p.grayscaleData) = targetSize'.width * targetSize'.height

LoadsInFlight == {k \in 1..Len(timers) : timers[k].kind = "load"}

C30_NoLoadLost ==
  LoadsInFlight = {} =>
    \A v \in Viewports : hasImage(viewportProcessor[v]) => loadedImages[v] = viewportProcessor[v]

====
